---- MODULE Spec2Model ----
(***************************************************************************)
(* Model of the outbound notification engine of newsletter-service:        *)
(* the provider registry (internal/providers), its load balancers and      *)
(* batch decorator, the dispatch orchestrator and retry sweep              *)
(* (internal/services/notification) and the scheduler loop                 *)
(* (internal/schedulers, cmd/worker).                                      *)
(*                                                                         *)
(* Three specifications share the variables:                               *)
(*   Spec       one caller driving the multi-provider dispatch             *)
(*              (SendNotificationsByContentIDWithProvider with a registry) *)
(*              while the batch decorators' background tasks run;          *)
(*   SpecSched  the worker's scheduler tick in its two wirings;            *)
(*   SpecRetry  the retry sweep over the email_logs table.                 *)
(* Messages are identified with the subscriber they are addressed to       *)
(* (subscriber addresses are unique).                                      *)
(***************************************************************************)
EXTENDS Integers, Sequences, FiniteSets, TLC

\* ---------------------------------------------------------------- bounds
MaxRuns == 2            \* dispatch invocations explored per behaviour
MaxFaults == 2          \* failing backend transmissions per behaviour
MaxTicks == 2           \* scheduler ticks explored per behaviour
MaxContents == 2        \* content items the scheduler sees
MaxRows == 3            \* rows of email_logs the retry sweep sees
MaxRaceRows == 1        \* rows of email_logs that concurrent retry sweeps see
MaxAttempts == 5        \* direct SendEmail calls on one backend
MaxMessages == 4        \* messages handed to one batch decorator
MaxEnabled == 2         \* names in cfg.Enabled
MaxSelects == 4         \* SelectProvider calls on one load balancer
MaxSentHour == 3        \* emails a backend has sent in the current hour

\* ------------------------------------------------------ program constants
BulkThreshold == 10     \* len(activeEmails) > 10
SMTPBatchSize == 50     \* NewBatchedEmailProvider(provider, 50, false)
SMTPDefaultMaxEmails == 1000
SMTPPriority == 1       \* SMTPEmailProvider.GetPriority
MaxEmailRetryCount == 3

StatusSent == "sent"
StatusFailed == "failed"
StatusPending == "pending"

\* ------------------------------------------------------------- universe
NumSubscribers == BulkThreshold + 2
Subscribers == 1..NumSubscribers
ContentIDs == {1}
MissingContentID == Cardinality(ContentIDs) + 1   \* an id GetContentByID does not find
RecipientCounts == {0, 1, 2, BulkThreshold, BulkThreshold + 1}
SchedContentIDs == 1..MaxContents
SchedRecipientCounts == {0, 2}
RetrySubscribers == {1, 2}
DispatchError == "e1"       \* err.Error() of a send that failed in a dispatch
ErrorTexts == {"e2"}        \* err.Error() of a resend that failed
NoError == "nil"            \* ErrorMessage = nil

Strategies == {"round_robin", "weighted", "least_load"}

\* A provider as the registry holds it: the backend variant and the
\* configuration NewBatchedEmailProvider and the backend were built from.
Provider(kind, priority, maxEmailsHour, bulkEnabled, maxBatchSize) ==
    [kind |-> kind, priority |-> priority, maxEmailsHour |-> maxEmailsHour,
     bulkEnabled |-> bulkEnabled, maxBatchSize |-> maxBatchSize]

\* Registries explored (order = order of cfg.Enabled).
Registries ==
    { << Provider("smtp", 1, 20, FALSE, SMTPBatchSize) >>,
      << Provider("sendgrid", 1, 20, TRUE, 20),
         Provider("generic", 2, 20, FALSE, 2) >>,
      << Provider("sendgrid", 1, 4, TRUE, 20),
         Provider("sendgrid", 2, 4, TRUE, 20) >>,
      << Provider("generic", 2, 20, TRUE, 20),
         Provider("smtp", 1, 0, FALSE, SMTPBatchSize) >> }

VARIABLES
    \* registry (ProviderFactory)
    strategy,           \* cfg.LoadBalancing
    providers,          \* factory.providers
    isHealthy,          \* per provider: backend isHealthy
    emailsSentHour,     \* per provider: backend emailsSentHour
    batch,              \* per provider: AsyncBatchManager.batch (entries <<run, subscriber>>)
    processingChan,     \* per provider: AsyncBatchManager.processingChan holds a token
    \* collaborators
    isActive,           \* subscriber.IsActive
    notificationsSent,  \* contents.notifications_sent
    \* one dispatch call (sendNotificationsMultiProvider and callees)
    pc,                 \* "idle", "bulk", "distribute", "sending", "done"
    contentID,          \* argument of the running call
    activeSubscribers,  \* resolved recipients, in subscription order
    queue,              \* spawned send tasks <<provider, subscriber>> not yet run
    sentCount,          \* sum read from successCount
    result,             \* error returned by the last call: "nil" or "error"
    \* observation of the running call
    runRecords,         \* per subscriber: the email_logs rows this call created, each with
                        \* its status and the outcome tx of the backend transmission
                        \* ("ok", "fail", or "queued" while it waits in an accumulator)
    bulkCalls,          \* SendBulkEmail calls of this call: [to, healthy, ok, recipients]
    singleCalls,        \* number of SendEmail calls of this call
    path,               \* "none", "bulk", "distributed", "fallback"
    healthAtDecision,   \* isHealthy when the path was chosen
    notifiedAtStart,    \* notifications_sent when the call started
    runs,               \* dispatch calls started so far
    faults,             \* failed transmissions so far
    \* scheduler (SpecSched)
    wiring,             \* "legacy": scheduler with provider, service without registry;
                        \* "multi": scheduler without provider, service with registry
    published,          \* contents.is_published
    tick,               \* scheduler position: "idle", "processing"
    pendingContentIDs,  \* ids still to process in this tick
    tickPending,        \* ids returned by GetPendingNotifications in this tick
    dispatched,         \* ids the orchestrator was run for in this tick, in order
    tickErrors,         \* calls that returned an error in this tick: [id, err]
    ticks,              \* ticks started so far
    \* retry sweep (SpecRetry)
    emailLogs,          \* email_logs table: sequence of rows, index = id
    sweep,              \* per sweeper: "idle" or "running"
    failedEmails,       \* per sweeper: rows loaded by the query (copies, with id), not yet processed
    sweepLog,           \* per sweeper: what each loop iteration of this sweep did
    loadedTable,        \* per sweeper: the table as it was when the query ran
    resends,            \* per row id: SendEmail calls the sweeps made for the row so far
    \* direct backend sends (SpecHealth)
    sendLog,            \* per provider: outcomes of the completed SendEmail calls, in order
    \* batch manager lifecycle (SpecBatch)
    manager,            \* per provider: "running"; "stopping" once stopChan is closed and
                        \* timeoutProcessor has not yet returned; "stopped" after it returned
    inFlight,           \* per provider: the batch timeoutProcessor swapped out and is sending
    accepted,           \* messages AddToBatch has accepted so far
    \* process (SpecSingle)
    panicked,           \* a goroutine panicked: the process is gone
    \* batch manager observation (SpecBatch)
    contentOf,          \* per accepted message: the content item it carries
    flushes,            \* per provider: the batches ProcessBatch has swapped out so far
    \* registry construction (SpecStartup)
    config,             \* cfg.Enabled, each name resolved to its configuration entry
    startup,            \* "init" before NewProviderFactory, then "ready" or "failed"
    \* provider selection (SpecSelect)
    counter,            \* RoundRobinLoadBalancer.counter
    selecting,          \* per caller inside SelectProvider: the healthy list it built
    selections,         \* results of the completed SelectProvider calls, in order
    \* goroutine fan-out behind a semaphore (SpecFanOut, SpecPool)
    workerConfig,       \* Service.workerConfig: << >> for nil, else << cfg.Worker >>
    semaphore,          \* capacity of the semaphore channel of the running call
    tasks,              \* per spawned goroutine: "spawned" (at the semaphore send),
                        \* "sending" (holds a slot, inside SendEmail), "ok", "failed"
    attempts,           \* per spawned goroutine: SendEmail calls it has made
    fanResult,          \* "idle", "running", then what the call returned: "nil", "error",
                        \* or "panic" when it did not return
    \* SMTP bulk send (SpecBulkSend)
    smtpBulk,           \* the running SendBulkEmail call: number of recipients, outcomes
                        \* of the SendEmail calls made so far, and the result
    \* hourly window of the backends (SpecStats)
    now,                \* time.Now(), in clock units since construction
    lastHourReset,      \* per provider: backend lastHourReset
    resetAt,            \* per provider: when it was constructed or its counter last reset
    \* request rate limiter, one key and one rule (SpecLimiter)
    limiter,            \* "none", or the variant in use: "memory" or "redis"
    rule,               \* config.RateLimitRule: BucketSize, RefillSize, RefillDuration
    bucket,             \* the stored TokenBucket of the key: << >> when absent, else << b >>
    reqs,               \* per caller inside RedisRateLimiter.Allow: << >>, or << [now, data] >>
                        \* with the clock value and the bucket it has read
    allowedSince,       \* requests allowed since the stored bucket was created or refilled
    served              \* Allow calls completed so far

registryVars == << strategy, providers, isHealthy, emailsSentHour, batch, processingChan >>
dispatchVars == << pc, contentID, activeSubscribers, queue, sentCount, result,
                   runRecords, bulkCalls, singleCalls, path,
                   healthAtDecision, notifiedAtStart, runs, faults >>
schedVars == << wiring, published, tick, pendingContentIDs, tickPending,
                dispatched, tickErrors, ticks >>
retryVars == << emailLogs, sweep, failedEmails, sweepLog, loadedTable, resends >>
batchVars == << manager, inFlight, accepted, contentOf, flushes >>
startupVars == << config, startup >>
selectVars == << counter, selecting, selections >>
fanVars == << workerConfig, semaphore, tasks, attempts, fanResult >>
statsVars == << now, lastHourReset, resetAt >>
limiterVars == << limiter, rule, bucket, reqs, allowedSince, served >>
vars == << registryVars, isActive, notificationsSent, dispatchVars, schedVars, retryVars,
          sendLog, batchVars, panicked, startupVars, selectVars, fanVars, smtpBulk, statsVars, limiterVars >>

\* ------------------------------------------------------------- helpers
\* variant of min that always yields its second argument
variantMinTakesSecond(a, b) == b

Min(a, b) == IF a < b THEN a ELSE b

Range(s) == { s[i] : i \in DOMAIN s }

RECURSIVE SumSeq(_)
SumSeq(s) == IF s = << >> THEN 0 ELSE Head(s) + SumSeq(Tail(s))

\* the sets of positions of a flushed batch of n messages whose send fails
\* that are explored: among the first two and the last message, at most
\* budget of them
FlushFailures(n, budget) ==
    { failed \in SUBSET ({1, 2, n} \cap (1..n)) : Cardinality(failed) <= budget }

\* s[lo+1 .. hi] : the Go slice s[lo:hi]
Slice(s, lo, hi) == IF hi <= lo THEN << >> ELSE SubSeq(s, lo + 1, hi)

\* ------------------------------------------------- provider accessors
NP == Len(providers)
ProviderIdx == 1..NP

\* BatchedEmailProvider.GetPriority -> backend GetPriority
GetPriority(i) ==
    IF providers[i].kind = "smtp" THEN SMTPPriority ELSE providers[i].priority

\* BatchedEmailProvider.GetLimits -> backend GetLimits, field MaxEmailsPerHour
MaxEmailsPerHour(i) ==
    IF providers[i].kind = "smtp"
    THEN IF providers[i].maxEmailsHour > 0 THEN providers[i].maxEmailsHour
         ELSE SMTPDefaultMaxEmails
    ELSE providers[i].maxEmailsHour

\* GetStats().EmailsSentLastHour within one hourly window
EmailsSentLastHour(i) == emailsSentHour[i]

\* GetStats().CurrentLoad
CurrentLoad(i) ==
    IF providers[i].kind = "generic" /\ providers[i].maxEmailsHour <= 0 THEN 0
    ELSE (emailsSentHour[i] * 100) \div MaxEmailsPerHour(i)

\* GetStats().IsHealthy
IsHealthy(i) == isHealthy[i]

\* backend SupportsBulk
BackendSupportsBulk(i) ==
    IF providers[i].kind = "smtp" THEN FALSE ELSE providers[i].bulkEnabled

\* the bulkEnabled argument NewProviderFactory passes to NewBatchedEmailProvider
DecoratorBulkEnabled(i) ==
    IF providers[i].kind = "smtp" THEN FALSE ELSE providers[i].bulkEnabled

\* BatchedEmailProvider.SupportsBulk
SupportsBulk(i) == DecoratorBulkEnabled(i) \/ BackendSupportsBulk(i)

\* the batchSize argument NewProviderFactory passes to NewBatchedEmailProvider
BatchSize(i) ==
    IF providers[i].kind = "smtp" THEN SMTPBatchSize ELSE providers[i].maxBatchSize

\* bp.batchManager != nil
HasBatchManager(i) == ~DecoratorBulkEnabled(i)

\* ProviderFactory.GetBulkCapableProviders (IsEnabled is true for every
\* provider the registry holds)
GetBulkCapableProviders == SelectSeq([i \in ProviderIdx |-> i], SupportsBulk)

\* ---------------------------------------------------- load balancers
\* sort.Slice on the provider slice: insertion sort for fewer than 12
\* elements, hence stable. key is a function on ProviderIdx.
SortedBy(key) ==
    LET rank(i) == Cardinality({ j \in ProviderIdx :
                       key[j] < key[i] \/ (key[j] = key[i] /\ j < i) }) + 1
    IN [r \in ProviderIdx |-> CHOOSE i \in ProviderIdx : rank(i) = r]

HealthyProviders == SelectSeq([i \in ProviderIdx |-> i], IsHealthy)

NoDistribution == [i \in ProviderIdx |-> << >>]

\* RoundRobinLoadBalancer.DistributeLoad
RoundRobinDistributeLoad(emails) ==
    LET healthy == HealthyProviders
        H == Len(healthy)
    IN IF NP = 0 \/ Len(emails) = 0 \/ H = 0 THEN NoDistribution
       ELSE [p \in ProviderIdx |->
               SelectSeq([k \in 1..Len(emails) |->
                            IF healthy[((k - 1) % H) + 1] = p THEN emails[k] ELSE 0],
                         LAMBDA e : e # 0)]

\* WeightedLoadBalancer.DistributeLoad. The per-provider lists are slices
\* of the backing array of emails, so the final append onto the first
\* provider's slice writes into that array and shows through the slices
\* handed to the other providers.
WeightedDistributeLoad(emails) ==
    LET M == Len(emails)
        sorted == SortedBy([i \in ProviderIdx |-> GetPriority(i)])
        avail(j) == MaxEmailsPerHour(sorted[j]) - EmailsSentLastHour(sorted[j])
        takes(j, before) ==
            IF IsHealthy(sorted[j]) /\ avail(j) > 0 /\ M - before > 0
            THEN Min(avail(j), M - before) ELSE 0
        off[j \in 1..(NP + 1)] ==
            IF j = 1 THEN 0 ELSE off[j - 1] + takes(j - 1, off[j - 1])
        T == off[NP + 1]
        firstHi == off[2]
        inPlace == T < M /\ firstHi > 0
        backing == [k \in 1..M |->
                      IF inPlace /\ k > firstHi /\ k <= firstHi + (M - T)
                      THEN emails[T + (k - firstHi)] ELSE emails[k]]
        listOf(j) ==
            IF j = 1
            THEN IF T < M
                 THEN IF firstHi > 0 THEN Slice(backing, 0, firstHi + (M - T))
                      ELSE Slice(emails, T, M)
                 ELSE Slice(emails, 0, firstHi)
            ELSE Slice(backing, off[j], off[j + 1])
    IN IF NP = 0 \/ M = 0 THEN NoDistribution
       ELSE [p \in ProviderIdx |->
               LET j == CHOOSE x \in ProviderIdx : sorted[x] = p IN listOf(j)]

\* LeastLoadLoadBalancer.DistributeLoad
LeastLoadDistributeLoad(emails) ==
    LET M == Len(emails)
        sorted == SortedBy([i \in ProviderIdx |-> CurrentLoad(i)])
        emailsPerProvider == M \div NP
        remainder == M % NP
        count(j) == emailsPerProvider + (IF j - 1 < remainder THEN 1 ELSE 0)
        gets(j, start) == IsHealthy(sorted[j]) /\ start + count(j) <= M
        start[j \in 1..(NP + 1)] ==
            IF j = 1 THEN 0
            ELSE IF gets(j - 1, start[j - 1]) THEN start[j - 1] + count(j - 1)
                 ELSE start[j - 1]
    IN IF NP = 0 \/ M = 0 THEN NoDistribution
       ELSE [p \in ProviderIdx |->
               LET j == CHOOSE x \in ProviderIdx : sorted[x] = p
               IN IF gets(j, start[j]) THEN Slice(emails, start[j], start[j] + count(j))
                  ELSE << >>]

\* ProviderFactory.DistributeEmails
DistributeEmails(emails) ==
    CASE strategy = "weighted" -> WeightedDistributeLoad(emails)
      [] strategy = "least_load" -> LeastLoadDistributeLoad(emails)
      [] OTHER -> RoundRobinDistributeLoad(emails)


\* ------------------------------------------------ dispatch orchestrator
Pending == [s \in Subscribers |-> << >>]

\* the subscription loop of sendNotificationsMultiProvider: every
\* subscriber is subscribed to the topic; inactive ones are skipped
ResolveActiveSubscribers ==
    SelectSeq([s \in Subscribers |-> s], LAMBDA s : isActive[s])

\* LogEmail: one more email_logs row for subscriber r in this call
LogEmail(records, r, status, tx) ==
    [records EXCEPT ![r] = Append(@, [status |-> status, tx |-> tx])]

\* logEmailSuccess
logEmailSuccess(records, r, tx) == LogEmail(records, r, StatusSent, tx)

\* logEmailFailure
logEmailFailure(records, r) == LogEmail(records, r, StatusFailed, "fail")

\* variant of logBulkEmailSuccess whose loop starts at the second subscriber
logBulkEmailSuccessSkipFirst(records, subscribers) ==
    [s \in Subscribers |->
        IF \E k \in 2..Len(subscribers) : subscribers[k] = s
        THEN Append(records[s], [status |-> StatusSent, tx |-> "ok"])
        ELSE records[s]]

\* logBulkEmailSuccess: one sent row per subscriber
RECURSIVE logBulkEmailSuccess(_, _)
logBulkEmailSuccess(records, subscribers) ==
    IF subscribers = << >> THEN records
    ELSE logBulkEmailSuccess(logEmailSuccess(records, Head(subscribers), "ok"),
                             Tail(subscribers))

\* the selection loop of sendBulkEmails over bulkProviders
RECURSIVE BestOf(_, _)
BestOf(best, rest) ==
    IF rest = << >> THEN best
    ELSE BestOf(IF IsHealthy(Head(rest)) /\ GetPriority(Head(rest)) < GetPriority(best)
                THEN Head(rest) ELSE best,
                Tail(rest))

BestBulkProvider == BestOf(Head(GetBulkCapableProviders), GetBulkCapableProviders)

\* the condition of sendNotificationsMultiProvider that selects sendBulkEmails
UseBulk(n) == n > BulkThreshold /\ Len(GetBulkCapableProviders) > 0

\* sendNotificationsMultiProvider up to the choice of the path
sendNotificationsMultiProvider(c) ==
    /\ pc = "idle"
    /\ runs < MaxRuns
    /\ runs' = runs + 1
    /\ contentID' = c
    /\ runRecords' = Pending
    /\ bulkCalls' = << >>
    /\ singleCalls' = 0
    /\ sentCount' = 0
    /\ queue' = << >>
    /\ healthAtDecision' = isHealthy
    /\ IF c \notin ContentIDs
       THEN \* GetContentByID fails
            /\ result' = "error"
            /\ pc' = "idle"
            /\ path' = "none"
            /\ activeSubscribers' = << >>
            /\ notifiedAtStart' = FALSE
       ELSE LET active == ResolveActiveSubscribers IN
            /\ activeSubscribers' = active
            /\ notifiedAtStart' = notificationsSent[c]
            /\ result' = "nil"
            /\ IF Len(active) = 0
               THEN pc' = "done" /\ path' = "none"
               ELSE IF UseBulk(Len(active))
                    THEN pc' = "bulk" /\ path' = "bulk"
                    ELSE pc' = "distribute" /\ path' = "distributed"
    /\ UNCHANGED << registryVars, isActive, notificationsSent, faults, schedVars, retryVars, sendLog,
                    batchVars, panicked, startupVars, selectVars, fanVars, smtpBulk, statsVars, limiterVars >>

\* backend SendBulkEmail on provider p for n recipients with outcome ok:
\* the new pair <<isHealthy, emailsSentHour>>
BackendAfterBulk(p, n, ok) ==
    IF providers[p].kind = "generic"
    THEN << isHealthy, [emailsSentHour EXCEPT ![p] = @ + n] >>
    ELSE IF ok THEN << [isHealthy EXCEPT ![p] = TRUE], [emailsSentHour EXCEPT ![p] = @ + n] >>
         ELSE << [isHealthy EXCEPT ![p] = FALSE], emailsSentHour >>

\* backend SendEmail on provider p with outcome ok
\* variant of the statistics update in which a success does not set the
\* flag back to true
variantBackendAfterSendNoRecover(p, ok) ==
    IF providers[p].kind = "generic"
    THEN << isHealthy, [emailsSentHour EXCEPT ![p] = @ + 1] >>
    ELSE IF ok THEN << isHealthy, [emailsSentHour EXCEPT ![p] = @ + 1] >>
         ELSE << [isHealthy EXCEPT ![p] = FALSE], emailsSentHour >>

BackendAfterSend(p, ok) ==
    IF providers[p].kind = "generic"
    THEN << isHealthy, [emailsSentHour EXCEPT ![p] = @ + 1] >>
    ELSE IF ok THEN << [isHealthy EXCEPT ![p] = TRUE], [emailsSentHour EXCEPT ![p] = @ + 1] >>
         ELSE << [isHealthy EXCEPT ![p] = FALSE], emailsSentHour >>

\* outcomes a transmission through provider p can have: the generic API
\* backend returns nil unconditionally
Outcomes(p) == IF providers[p].kind = "generic" THEN {TRUE} ELSE BOOLEAN

\* sendBulkEmails: one SendBulkEmail on the selected provider, then
\* logBulkEmailSuccess or the fallback to sendDistributedEmails
sendBulkEmails ==
    /\ pc = "bulk"
    /\ LET best == BestBulkProvider
           n == Len(activeSubscribers)
       IN \E ok \in Outcomes(best) :
            /\ ~ok => faults < MaxFaults
            /\ faults' = IF ok THEN faults ELSE faults + 1
            /\ bulkCalls' = Append(bulkCalls,
                   [to |-> best, healthy |-> IsHealthy(best), ok |-> ok,
                    recipients |-> activeSubscribers])
            /\ isHealthy' = BackendAfterBulk(best, n, ok)[1]
            /\ emailsSentHour' = BackendAfterBulk(best, n, ok)[2]
            /\ IF ok
               THEN /\ runRecords' = logBulkEmailSuccess(runRecords, activeSubscribers)
                    /\ pc' = "done"
               ELSE /\ runRecords' = runRecords
                    /\ pc' = "distribute"
    /\ UNCHANGED << strategy, providers, batch, processingChan, isActive, notificationsSent,
                    contentID, activeSubscribers, queue, sentCount, result, singleCalls,
                    path, healthAtDecision, notifiedAtStart, runs, schedVars, retryVars, sendLog,
                    batchVars, panicked, startupVars, selectVars, fanVars, smtpBulk, statsVars, limiterVars >>

\* the send tasks sendDistributedEmails spawns: for every provider of the
\* distribution that is healthy, one task per message of its list
RECURSIVE SpawnTasks(_, _)
SpawnTasks(distribution, p) ==
    IF p > NP THEN << >>
    ELSE (IF IsHealthy(p)
          THEN [k \in 1..Len(distribution[p]) |-> << p, distribution[p][k] >>]
          ELSE << >>) \o SpawnTasks(distribution, p + 1)

\* sendDistributedEmails up to the spawning of the send tasks
sendDistributedEmails ==
    /\ pc = "distribute"
    /\ queue' = SpawnTasks(DistributeEmails(activeSubscribers), 1)
    /\ sentCount' = 0
    /\ path' = IF path = "bulk" THEN "fallback" ELSE path
    /\ pc' = "sending"
    /\ UNCHANGED << registryVars, isActive, notificationsSent, contentID, activeSubscribers,
                    result, runRecords, bulkCalls, singleCalls, healthAtDecision,
                    notifiedAtStart, runs, faults, schedVars, retryVars, sendLog,
                    batchVars, panicked, startupVars, selectVars, fanVars, smtpBulk, statsVars, limiterVars >>

\* AsyncBatchManager.AddToBatch on provider p's accumulator
AddToBatch(b, p, entry) == [b EXCEPT ![p] = Append(@, entry)]

\* variant of the size trigger that fires only beyond the batch size
variantSizeTriggerStrict(chan, b, p) ==
    [chan EXCEPT ![p] = @ \/ Len(b[p]) > BatchSize(p)]

\* the size trigger of AddToBatch
SizeTrigger(chan, b, p) ==
    [chan EXCEPT ![p] = @ \/ Len(b[p]) >= BatchSize(p)]

\* one send task of sendDistributedEmails: BatchedEmailProvider.SendEmail,
\* then logEmailSuccess or logEmailFailure
SendTask ==
    /\ pc = "sending"
    /\ queue # << >>
    /\ LET p == Head(queue)[1]
           r == Head(queue)[2]
       IN /\ queue' = Tail(queue)
          /\ singleCalls' = singleCalls + 1
          /\ IF HasBatchManager(p)
             THEN /\ batch' = AddToBatch(batch, p, << runs, r, Len(runRecords[r]) + 1 >>)
                  /\ processingChan' = SizeTrigger(processingChan, batch', p)
                  /\ runRecords' = logEmailSuccess(runRecords, r, "queued")
                  /\ sentCount' = sentCount + 1
                  /\ UNCHANGED << isHealthy, emailsSentHour, faults >>
             ELSE \E ok \in Outcomes(p) :
                  /\ ~ok => faults < MaxFaults
                  /\ faults' = IF ok THEN faults ELSE faults + 1
                  /\ isHealthy' = BackendAfterSend(p, ok)[1]
                  /\ emailsSentHour' = BackendAfterSend(p, ok)[2]
                  /\ runRecords' = IF ok THEN logEmailSuccess(runRecords, r, "ok")
                                   ELSE logEmailFailure(runRecords, r)
                  /\ sentCount' = sentCount + (IF ok THEN 1 ELSE 0)
                  /\ UNCHANGED << batch, processingChan >>
    /\ UNCHANGED << strategy, providers, isActive, notificationsSent, pc, contentID,
                    activeSubscribers, result, bulkCalls, path, healthAtDecision,
                    notifiedAtStart, runs, schedVars, retryVars, sendLog, batchVars, panicked,
                    startupVars, selectVars, fanVars, smtpBulk, statsVars, limiterVars >>

\* MarkNotificationsSent
MarkNotificationsSent(flags, c) == [flags EXCEPT ![c] = TRUE]

\* the end of sendDistributedEmails: the result channel is drained, the
\* content is marked when sentCount > 0, nil is returned
FinishDistributed ==
    /\ pc = "sending"
    /\ queue = << >>
    /\ notificationsSent' = IF sentCount > 0
                            THEN MarkNotificationsSent(notificationsSent, contentID)
                            ELSE notificationsSent
    /\ result' = "nil"
    /\ pc' = "done"
    /\ UNCHANGED << registryVars, isActive, contentID, activeSubscribers, queue, sentCount,
                    runRecords, bulkCalls, singleCalls, path, healthAtDecision,
                    notifiedAtStart, runs, faults, schedVars, retryVars, sendLog,
                    batchVars, panicked, startupVars, selectVars, fanVars, smtpBulk, statsVars, limiterVars >>

\* the call has returned to its caller
Return ==
    /\ pc = "done"
    /\ pc' = "idle"
    /\ UNCHANGED << registryVars, isActive, notificationsSent, contentID, activeSubscribers,
                    queue, sentCount, result, runRecords, bulkCalls, singleCalls, path,
                    healthAtDecision, notifiedAtStart, runs, faults, schedVars, retryVars, sendLog,
                    batchVars, panicked, startupVars, selectVars, fanVars, smtpBulk, statsVars, limiterVars >>


\* ------------------------------------------------------ batch decorator
\* the ticker case of AsyncBatchManager.timeoutProcessor: a non-empty
\* accumulator puts a token on processingChan unless one is there
TimeoutTick(p) ==
    /\ HasBatchManager(p)
    /\ Len(batch[p]) > 0
    /\ ~processingChan[p]
    /\ processingChan' = [processingChan EXCEPT ![p] = TRUE]
    /\ UNCHANGED << strategy, providers, isHealthy, emailsSentHour, batch, isActive,
                    notificationsSent, dispatchVars, schedVars, retryVars, sendLog,
                    batchVars, panicked, startupVars, selectVars, fanVars, smtpBulk, statsVars, limiterVars >>

\* the transmission outcomes of a flushed batch are written to the rows
\* of the running call they belong to (observation only)
RECURSIVE ObserveFlush(_, _, _, _)
ObserveFlush(records, currentBatch, failed, k) ==
    IF k > Len(currentBatch) THEN records
    ELSE LET e == currentBatch[k]
             r == e[2]
             row == e[3]
             seen == IF e[1] = runs /\ row <= Len(records[r])
                     THEN [records EXCEPT ![r][row].tx =
                               IF k \in failed THEN "fail" ELSE "ok"]
                     ELSE records
         IN ObserveFlush(seen, currentBatch, failed, k + 1)

\* isHealthy of the backend after the concurrent sends of a flush: every
\* send writes the flag, the last writer wins
HealthAfterFanOut(n, failed) ==
    IF failed = {} THEN {TRUE}
    ELSE IF Cardinality(failed) = n THEN {FALSE} ELSE BOOLEAN

\* the processingChan case of timeoutProcessor: AsyncBatchManager.ProcessBatch
\* swaps the accumulator out and sends its messages one by one through the
\* backend (no backend behind a batch manager supports bulk)
ProcessBatch(p) ==
    /\ HasBatchManager(p)
    /\ processingChan[p]
    /\ processingChan' = [processingChan EXCEPT ![p] = FALSE]
    /\ batch' = [batch EXCEPT ![p] = << >>]
    /\ LET currentBatch == batch[p]
           n == Len(currentBatch)
       IN \E failed \in FlushFailures(n, MaxFaults - faults) :
            /\ providers[p].kind = "generic" => failed = {}
            /\ faults' = faults + Cardinality(failed)
            /\ emailsSentHour' = [emailsSentHour EXCEPT ![p] = @ + n - Cardinality(failed)]
            /\ IF providers[p].kind = "generic" \/ n = 0
               THEN isHealthy' = isHealthy
               ELSE \E h \in HealthAfterFanOut(n, failed) :
                       isHealthy' = [isHealthy EXCEPT ![p] = h]
            /\ runRecords' = ObserveFlush(runRecords, currentBatch, failed, 1)
    /\ UNCHANGED << strategy, providers, isActive, notificationsSent, pc, contentID,
                    activeSubscribers, queue, sentCount, result, bulkCalls, singleCalls,
                    path, healthAtDecision, notifiedAtStart, runs, schedVars, retryVars, sendLog,
                    batchVars, panicked, startupVars, selectVars, fanVars, smtpBulk, statsVars, limiterVars >>

\* ------------------------------------------------------- specification
SchedIdle ==
    /\ wiring = "none"
    /\ published = [c \in ContentIDs |-> FALSE]
    /\ tick = "idle"
    /\ pendingContentIDs = << >>
    /\ tickPending = << >>
    /\ dispatched = << >>
    /\ tickErrors = {}
    /\ ticks = 0

RetryIdle ==
    /\ emailLogs = << >>
    /\ sweep = << >>
    /\ failedEmails = << >>
    /\ sweepLog = << >>
    /\ loadedTable = << >>
    /\ resends = << >>

\* NewAsyncBatchManager: the background task runs, nothing is being sent
BatchIdle ==
    /\ manager = [i \in DOMAIN providers |-> "running"]
    /\ inFlight = [i \in DOMAIN providers |-> << >>]
    /\ accepted = 0
    /\ contentOf = << >>
    /\ flushes = [i \in DOMAIN providers |-> << >>]

\* a registry that has been built
StartupIdle ==
    /\ config = << >>
    /\ startup = "ready"

\* no SelectProvider call has been made
SelectIdle ==
    /\ counter = 0
    /\ selecting = << >>
    /\ selections = << >>

\* no goroutine fan-out is running
FanIdle ==
    /\ workerConfig = << >>
    /\ semaphore = 0
    /\ tasks = << >>
    /\ attempts = << >>
    /\ fanResult = "idle"

\* no SMTP SendBulkEmail call is running
SMTPBulkIdle == smtpBulk = [to |-> 0, outcomes |-> << >>, result |-> "idle"]

\* the clock has not moved since construction and no window is observed
StatsIdle ==
    /\ now = 0
    /\ lastHourReset = << >>
    /\ resetAt = << >>

\* no rate limiter is in use
LimiterIdle ==
    /\ limiter = "none"
    /\ rule = << >>
    /\ bucket = << >>
    /\ reqs = << >>
    /\ allowedSince = 0
    /\ served = 0

\* the state NewProviderFactory leaves: every backend healthy with a zero
\* counter, every accumulator empty
RegistryInit ==
    /\ strategy \in Strategies
    /\ providers \in Registries
    /\ isHealthy = [i \in DOMAIN providers |-> TRUE]
    /\ emailsSentHour = [i \in DOMAIN providers |-> 0]
    /\ batch = [i \in DOMAIN providers |-> << >>]
    /\ processingChan = [i \in DOMAIN providers |-> FALSE]

DispatchIdle ==
    /\ pc = "idle"
    /\ contentID = MissingContentID
    /\ activeSubscribers = << >>
    /\ queue = << >>
    /\ sentCount = 0
    /\ result = "nil"
    /\ runRecords = Pending
    /\ bulkCalls = << >>
    /\ singleCalls = 0
    /\ path = "none"
    /\ healthAtDecision = isHealthy
    /\ notifiedAtStart = FALSE
    /\ runs = 0
    /\ faults = 0

Init ==
    /\ RegistryInit
    /\ \E n \in RecipientCounts : isActive = [s \in Subscribers |-> s <= n]
    /\ notificationsSent = [c \in ContentIDs |-> FALSE]
    /\ DispatchIdle
    /\ SchedIdle
    /\ RetryIdle
    /\ sendLog = << >>
    /\ BatchIdle
    /\ panicked = FALSE
    /\ StartupIdle
    /\ SelectIdle
    /\ FanIdle
    /\ SMTPBulkIdle
    /\ StatsIdle
    /\ LimiterIdle

Next ==
    \/ \E c \in ContentIDs \cup {MissingContentID} : sendNotificationsMultiProvider(c)
    \/ sendBulkEmails
    \/ sendDistributedEmails
    \/ SendTask
    \/ FinishDistributed
    \/ Return
    \/ \E p \in ProviderIdx : TimeoutTick(p)
    \/ \E p \in ProviderIdx : ProcessBatch(p)

Spec == Init /\ [][Next]_vars


\* ====================================================== dispatch claims
RowsOf(s) == Len(runRecords[s])
Recipients == Range(activeSubscribers)
Attempted == bulkCalls # << >> \/ singleCalls > 0
HealthyBulkAtDecision ==
    { i \in ProviderIdx : SupportsBulk(i) /\ healthAtDecision[i] }

\* C1 (as claimed): a row whose backend transmission failed has status
\* failed, for direct providers and for providers behind a batch manager.
C1_FailedTransmissionIsFailedRow ==
    \A s \in Subscribers : \A k \in 1..RowsOf(s) :
        runRecords[s][k].tx = "fail" => runRecords[s][k].status = StatusFailed

\* C2 (as claimed): a completed call that attempted a recipient has marked
\* the content notifications-sent, on the bulk and on the distributed path.
C2_AttemptedImpliesMarked ==
    (pc = "done" /\ Attempted) => notificationsSent[contentID]

\* C3 (as claimed): a completed call on the distributed path created
\* exactly one row, sent or failed, per resolved active recipient.
C3_OneRowPerRecipient ==
    (pc = "done" /\ path \in {"distributed", "fallback"}) =>
        \A s \in Subscribers :
            /\ RowsOf(s) = (IF s \in Recipients THEN 1 ELSE 0)
            /\ \A k \in 1..RowsOf(s) :
                   runRecords[s][k].status \in {StatusSent, StatusFailed}

\* C5: with more than 10 recipients and a healthy bulk-capable provider,
\* a call whose bulk call succeeded made exactly one SendBulkEmail call
\* carrying all recipients, no SendEmail call, and one sent row per recipient.
C5_BulkSuccess ==
    (/\ pc = "done"
     /\ Len(activeSubscribers) > BulkThreshold
     /\ HealthyBulkAtDecision # {}
     /\ bulkCalls # << >>
     /\ bulkCalls[1].ok) =>
        /\ Len(bulkCalls) = 1
        /\ bulkCalls[1].recipients = activeSubscribers
        /\ singleCalls = 0
        /\ \A s \in Subscribers :
              IF s \in Recipients
              THEN /\ RowsOf(s) = 1
                   /\ runRecords[s][1].status = StatusSent
              ELSE RowsOf(s) = 0

\* C5 witness: a call with 11 recipients has completed after a successful bulk call
C5_Witness ==
    /\ pc = "done"
    /\ Len(activeSubscribers) = BulkThreshold + 1
    /\ HealthyBulkAtDecision # {}
    /\ Len(bulkCalls) = 1
    /\ bulkCalls[1].ok
    /\ RowsOf(BulkThreshold + 1) = 1

C8_RedispatchAddsNRows ==
    (pc = "done" /\ notifiedAtStart) =>
        SumSeq([k \in 1..NumSubscribers |-> RowsOf(k)]) = Len(activeSubscribers)


\* ------------------------------------------------------ scheduler loop
\* ContentRepository.GetPendingNotifications: published and not notified
GetPendingNotifications ==
    SelectSeq([c \in SchedContentIDs |-> c],
              LAMBDA c : published[c] /\ ~notificationsSent[c])

\* NotificationScheduler.ProcessPendingNotifications up to its loop
ProcessPendingNotifications ==
    /\ tick = "idle"
    /\ ticks < MaxTicks
    /\ ticks' = ticks + 1
    /\ \E queryOK \in BOOLEAN :
          IF queryOK
          THEN /\ tick' = "processing"
               /\ pendingContentIDs' = GetPendingNotifications
               /\ tickPending' = GetPendingNotifications
               /\ result' = "nil"
          ELSE /\ tick' = "idle"
               /\ pendingContentIDs' = << >>
               /\ tickPending' = << >>
               /\ result' = "error"
    /\ dispatched' = << >>
    /\ tickErrors' = {}
    /\ UNCHANGED << registryVars, isActive, notificationsSent, pc, contentID, activeSubscribers,
                    queue, sentCount, runRecords, bulkCalls, singleCalls, path,
                    healthAtDecision, notifiedAtStart, runs, faults, wiring, published,
                    retryVars, sendLog, batchVars, panicked, startupVars, selectVars, fanVars, smtpBulk, statsVars, limiterVars >>

\* sendEmailsConcurrently: one SendEmail per subscriber through the single
\* provider, one row each, sent or failed
sendEmailsConcurrently(subscribers, failed) ==
    [s \in Subscribers |->
        IF s \in Range(subscribers)
        THEN << [status |-> IF s \in failed THEN StatusFailed ELSE StatusSent,
                 tx |-> IF s \in failed THEN "fail" ELSE "ok"] >>
        ELSE << >>]

\* s.emailProvider != nil: the scheduler was built by NewNotificationSchedulerWithProvider
SchedulerHasProvider == wiring = "legacy"

\* s.providerFactory != nil: the service was built by NewServiceWithProviders
ServiceHasRegistry == wiring = "multi"

\* the errors the dispatch entry points return
ErrProviderRequired == "provider is required for sending notifications"
ErrGetContent == "failed to get content"
ErrGetSubscriptions == "failed to get subscriptions"

\* variant of the loop that leaves at the first error instead of continuing
variantRemainingAfterBreak(pending, err) ==
    IF err # "nil" THEN << >> ELSE Tail(pending)

\* the ids the loop of ProcessPendingNotifications still has to process
\* after the call for the first one returned err: an error is logged and
\* the loop continues
RemainingAfter(pending, err) == Tail(pending)

\* one iteration of the loop of ProcessPendingNotifications for the next
\* content id: with a provider, SendNotificationsByContentIDWithProvider
\* (here sendNotificationsSingleProvider, the service has no registry);
\* without one, SendNotificationsByContentID, which returns its error
ProcessContentID ==
    /\ tick = "processing"
    /\ pendingContentIDs # << >>
    /\ LET c == Head(pendingContentIDs) IN
       /\ contentID' = c
       /\ IF SchedulerHasProvider
          THEN /\ dispatched' = Append(dispatched, c)
               /\ \E err \in {"nil", ErrGetContent, ErrGetSubscriptions} :
                    /\ pendingContentIDs' = RemainingAfter(pendingContentIDs, err)
                    /\ IF err # "nil"
                       THEN \* GetContentByID or GetSubscriptionsByTopicID fails
                            /\ tickErrors' = tickErrors \cup {[id |-> c, err |-> err]}
                            /\ UNCHANGED << notificationsSent, activeSubscribers, runRecords,
                                            sentCount, singleCalls >>
                       ELSE LET active == ResolveActiveSubscribers IN
                            /\ activeSubscribers' = active
                            /\ tickErrors' = tickErrors
                            /\ \E failed \in SUBSET Range(active) :
                                 /\ runRecords' = sendEmailsConcurrently(active, failed)
                                 /\ sentCount' = Len(active) - Cardinality(failed)
                            /\ singleCalls' = Len(active)
                            /\ \E markOK \in BOOLEAN :
                                 \* a failed MarkNotificationsSent is printed and ignored
                                 notificationsSent' =
                                    IF Len(active) > 0 /\ markOK
                                    THEN MarkNotificationsSent(notificationsSent, c)
                                    ELSE notificationsSent
          ELSE /\ tickErrors' = tickErrors \cup {[id |-> c, err |-> ErrProviderRequired]}
               /\ pendingContentIDs' = RemainingAfter(pendingContentIDs, ErrProviderRequired)
               /\ UNCHANGED << dispatched, notificationsSent, activeSubscribers, runRecords,
                               sentCount, singleCalls >>
    /\ UNCHANGED << registryVars, isActive, pc, queue, result, bulkCalls, path,
                    healthAtDecision, notifiedAtStart, runs, faults, wiring, published,
                    tick, tickPending, ticks, retryVars, sendLog, batchVars, panicked,
                    startupVars, selectVars, fanVars, smtpBulk, statsVars, limiterVars >>

\* ProcessPendingNotifications returns nil after the loop
TickDone ==
    /\ tick = "processing"
    /\ pendingContentIDs = << >>
    /\ tick' = "idle"
    /\ result' = "nil"
    /\ UNCHANGED << registryVars, isActive, notificationsSent, pc, contentID, activeSubscribers,
                    queue, sentCount, runRecords, bulkCalls, singleCalls, path,
                    healthAtDecision, notifiedAtStart, runs, faults, wiring, published,
                    pendingContentIDs, tickPending, dispatched, tickErrors, ticks, retryVars, sendLog,
                    batchVars, panicked, startupVars, selectVars, fanVars, smtpBulk, statsVars, limiterVars >>

\* ContentRepository.Publish, called through the content API between ticks
Publish(c) ==
    /\ ~published[c]
    /\ published' = [published EXCEPT ![c] = TRUE]
    /\ UNCHANGED << registryVars, isActive, notificationsSent, dispatchVars, wiring, tick,
                    pendingContentIDs, tickPending, dispatched, tickErrors, ticks, retryVars, sendLog,
                    batchVars, panicked, startupVars, selectVars, fanVars, smtpBulk, statsVars, limiterVars >>

RegistryNone ==
    /\ strategy = "round_robin"
    /\ providers = << >>
    /\ isHealthy = << >>
    /\ emailsSentHour = << >>
    /\ batch = << >>
    /\ processingChan = << >>

InitSched ==
    /\ RegistryNone
    /\ \E n \in SchedRecipientCounts : isActive = [s \in Subscribers |-> s <= n]
    /\ notificationsSent = [c \in SchedContentIDs |-> FALSE]
    /\ DispatchIdle
    /\ wiring \in {"legacy", "multi"}
    /\ published \in [SchedContentIDs -> BOOLEAN]
    /\ tick = "idle"
    /\ pendingContentIDs = << >>
    /\ tickPending = << >>
    /\ dispatched = << >>
    /\ tickErrors = {}
    /\ ticks = 0
    /\ RetryIdle
    /\ sendLog = << >>
    /\ BatchIdle
    /\ panicked = FALSE
    /\ StartupIdle
    /\ SelectIdle
    /\ FanIdle
    /\ SMTPBulkIdle
    /\ StatsIdle
    /\ LimiterIdle

NextSched ==
    \/ ProcessPendingNotifications
    \/ ProcessContentID
    \/ TickDone
    \/ \E c \in SchedContentIDs : Publish(c)

SpecSched == InitSched /\ [][NextSched]_vars

\* ========================================================= scheduler claims
\* C4 (as claimed): when the loop of a tick has gone through the ids the
\* query returned, the orchestrator was run for every one of them, in both
\* worker wirings.
C4_EveryPendingIdDispatched ==
    (tick = "processing" /\ pendingContentIDs = << >>) => dispatched = tickPending


\* ---------------------------------------------------------- retry sweep
Sweepers == DOMAIN sweep

\* a row of email_logs (the fields the sweep reads or writes)
Row(subscriber, status, retryCount, errorMessage) ==
    [subscriber |-> subscriber, status |-> status, retryCount |-> retryCount,
     errorMessage |-> errorMessage]

\* variant of the WHERE clause that compares with <= instead of <
variantRetryEligibleInclusive(row) ==
    row.status = StatusFailed /\ row.retryCount <= MaxEmailRetryCount

\* the WHERE clause of RetryFailedEmailsWithProvider
RetryEligible(row) ==
    row.status = StatusFailed /\ row.retryCount < MaxEmailRetryCount

\* Find(&failedEmails): copies of the matching rows with their ids, in table order
QueryFailedEmails(table) ==
    SelectSeq([i \in 1..Len(table) |->
                 [id |-> i, subscriber |-> table[i].subscriber, status |-> table[i].status,
                  retryCount |-> table[i].retryCount, errorMessage |-> table[i].errorMessage]],
              RetryEligible)

\* GetSubscriberByID succeeds and the subscriber is active
SubscriberOK(s) == s \in DOMAIN isActive /\ isActive[s]

\* variant of the update that leaves the error text in place on success
variantRetryUpdateKeepsError(e, outcome) ==
    IF outcome = "ok"
    THEN [e EXCEPT !.status = StatusSent]
    ELSE [e EXCEPT !.retryCount = @ + 1, !.errorMessage = outcome]

\* the update the loop applies to its copy after the resend: outcome is
\* "ok" or the error text of the failed send
RetryUpdate(e, outcome) ==
    IF outcome = "ok"
    THEN [e EXCEPT !.status = StatusSent, !.errorMessage = NoError]
    ELSE [e EXCEPT !.retryCount = @ + 1, !.errorMessage = outcome]

\* db.Save(emailLog): every column of the row with the copy's id is written
Save(table, e) ==
    [table EXCEPT ![e.id] = Row(e.subscriber, e.status, e.retryCount, e.errorMessage)]

\* RetryFailedEmailsWithProvider up to its loop
RetryFailedEmailsWithProvider(w) ==
    /\ sweep[w] = "idle"
    /\ \E queryOK \in BOOLEAN :
          IF queryOK
          THEN /\ sweep' = [sweep EXCEPT ![w] = "running"]
               /\ failedEmails' = [failedEmails EXCEPT ![w] = QueryFailedEmails(emailLogs)]
               /\ result' = result
               /\ loadedTable' = [loadedTable EXCEPT ![w] = emailLogs]
          ELSE /\ sweep' = sweep
               /\ failedEmails' = failedEmails
               /\ result' = "error"
               /\ loadedTable' = loadedTable
    /\ sweepLog' = sweepLog
    /\ UNCHANGED << registryVars, isActive, notificationsSent, pc, contentID, activeSubscribers,
                    queue, sentCount, runRecords, bulkCalls, singleCalls, path,
                    healthAtDecision, notifiedAtStart, runs, faults, schedVars, emailLogs,
                    resends, sendLog, batchVars, panicked, startupVars, selectVars, fanVars, smtpBulk, statsVars, limiterVars >>

\* one iteration of the loop: skip when the subscriber cannot be loaded or
\* is inactive, otherwise one SendEmail, the update of the copy and Save
RetryStep(w) ==
    /\ sweep[w] = "running"
    /\ failedEmails[w] # << >>
    /\ LET e == Head(failedEmails[w]) IN
       /\ failedEmails' = [failedEmails EXCEPT ![w] = Tail(@)]
       /\ IF ~SubscriberOK(e.subscriber)
          THEN /\ sweepLog' = [sweepLog EXCEPT ![w] =
                      Append(@, [id |-> e.id, outcome |-> "skip",
                                 exists |-> e.subscriber \in DOMAIN isActive,
                                 active |-> IF e.subscriber \in DOMAIN isActive
                                            THEN isActive[e.subscriber] ELSE FALSE])]
               /\ emailLogs' = emailLogs
               /\ resends' = resends
          ELSE \E outcome \in {"ok"} \cup ErrorTexts :
               /\ sweepLog' = [sweepLog EXCEPT ![w] =
                      Append(@, [id |-> e.id, outcome |-> outcome,
                                 exists |-> e.subscriber \in DOMAIN isActive,
                                 active |-> IF e.subscriber \in DOMAIN isActive
                                            THEN isActive[e.subscriber] ELSE FALSE])]
               /\ emailLogs' = Save(emailLogs, RetryUpdate(e, outcome))
               /\ resends' = [resends EXCEPT ![e.id] = @ + 1]
    /\ UNCHANGED << registryVars, isActive, notificationsSent, dispatchVars, schedVars,
                    sweep, loadedTable, sendLog, batchVars, panicked, startupVars, selectVars, fanVars, smtpBulk, statsVars, limiterVars >>

\* RetryFailedEmailsWithProvider returns nil after the loop
RetryDone(w) ==
    /\ sweep[w] = "running"
    /\ failedEmails[w] = << >>
    /\ sweep' = [sweep EXCEPT ![w] = "idle"]
    /\ result' = "nil"
    /\ sweepLog' = [sweepLog EXCEPT ![w] = << >>]
    /\ loadedTable' = [loadedTable EXCEPT ![w] = << >>]
    /\ UNCHANGED << registryVars, isActive, notificationsSent, pc, contentID, activeSubscribers,
                    queue, sentCount, runRecords, bulkCalls, singleCalls, path,
                    healthAtDecision, notifiedAtStart, runs, faults, schedVars,
                    emailLogs, failedEmails, resends, sendLog, batchVars, panicked,
                    startupVars, selectVars, fanVars, smtpBulk, statsVars, limiterVars >>

\* the subscriber the next row is written for: the rows explored are
\* written for the subscribers in turn
NextRowSubscriber == (Len(emailLogs) % Cardinality(RetrySubscribers)) + 1

\* rows explored: fewer when more than one sweep runs
RowLimit == IF Cardinality(Sweepers) > 1 THEN MaxRaceRows ELSE MaxRows

\* notificationService.LogEmail: a new row, as a dispatch writes it
\* (sent, or failed with the error text of the send) or with the column
\* default pending
LogEmailRow(s, status) ==
    /\ Len(emailLogs) < RowLimit
    /\ s = NextRowSubscriber
    /\ s \in DOMAIN isActive
    /\ emailLogs' = Append(emailLogs,
           Row(s, status, 0, IF status = StatusFailed THEN DispatchError ELSE NoError))
    /\ resends' = Append(resends, 0)
    /\ UNCHANGED << registryVars, isActive, notificationsSent, dispatchVars, schedVars,
                    sweep, failedEmails, sweepLog, loadedTable, sendLog, batchVars, panicked,
                    startupVars, selectVars, fanVars, smtpBulk, statsVars, limiterVars >>

\* the unsubscribe and resubscribe handlers write is_active
SetActive(s, b) ==
    /\ s \in DOMAIN isActive
    /\ isActive[s] # b
    /\ isActive' = [isActive EXCEPT ![s] = b]
    /\ UNCHANGED << registryVars, notificationsSent, dispatchVars, schedVars, retryVars, sendLog,
                    batchVars, panicked, startupVars, selectVars, fanVars, smtpBulk, statsVars, limiterVars >>

\* SubscriberService.DeleteSubscriber: GetSubscriberByID fails from now on
DeleteSubscriber(s) ==
    /\ s \in DOMAIN isActive
    /\ isActive' = [x \in DOMAIN isActive \ {s} |-> isActive[x]]
    /\ UNCHANGED << registryVars, notificationsSent, dispatchVars, schedVars, retryVars, sendLog,
                    batchVars, panicked, startupVars, selectVars, fanVars, smtpBulk, statsVars, limiterVars >>

InitRetry ==
    /\ RegistryNone
    /\ isActive \in [RetrySubscribers -> BOOLEAN]
    /\ notificationsSent = [c \in ContentIDs |-> FALSE]
    /\ DispatchIdle
    /\ SchedIdle
    /\ emailLogs = << >>
    /\ sweep = [w \in {1} |-> "idle"]
    /\ failedEmails = [w \in {1} |-> << >>]
    /\ sweepLog = [w \in {1} |-> << >>]
    /\ loadedTable = [w \in {1} |-> << >>]
    /\ resends = << >>
    /\ sendLog = << >>
    /\ BatchIdle
    /\ panicked = FALSE
    /\ StartupIdle
    /\ SelectIdle
    /\ FanIdle
    /\ SMTPBulkIdle
    /\ StatsIdle
    /\ LimiterIdle

NextRetry ==
    \/ \E w \in Sweepers : RetryFailedEmailsWithProvider(w)
    \/ \E w \in Sweepers : RetryStep(w)
    \/ \E w \in Sweepers : RetryDone(w)
    \/ \E s \in RetrySubscribers, status \in {StatusSent, StatusFailed, StatusPending} :
          LogEmailRow(s, status)
    \/ \E s \in RetrySubscribers, b \in BOOLEAN : SetActive(s, b)
    \/ \E s \in RetrySubscribers : DeleteSubscriber(s)

SpecRetry == InitRetry /\ [][NextRetry]_vars


\* ======================================================= retry sweep claims
IdsOf(rows) == [k \in 1..Len(rows) |-> rows[k].id]

\* ids of the rows of a table that are failed with a retry count below the ceiling
FailedBelowCeiling(table) ==
    SelectSeq([i \in 1..Len(table) |-> i],
              LAMBDA i : table[i].status = "failed" /\ table[i].retryCount < 3)

\* C9: the rows a sweep has gone through and the rows it still holds are
\* together exactly the rows that were failed with retry count below 3 when
\* the query ran, each once and in table order; a row it went through got a
\* resend iff its subscriber existed and was active at that moment. Rows
\* that were sent, pending or at retry count 3 are never touched.
C9_SweepAttemptsEligibleOnce ==
    \A w \in Sweepers :
        sweep[w] = "running" =>
            /\ IdsOf(sweepLog[w]) \o IdsOf(failedEmails[w]) = FailedBelowCeiling(loadedTable[w])
            /\ \A k \in 1..Len(sweepLog[w]) :
                   (sweepLog[w][k].outcome # "skip") <=>
                       (sweepLog[w][k].exists /\ sweepLog[w][k].active)

\* C9 witness: a sweep that loaded failed rows with retry counts 3, 2 and 0
\* has finished its loop with a resend for the last two only
C9_Witness ==
    /\ sweep[1] = "running"
    /\ failedEmails[1] = << >>
    /\ Len(loadedTable[1]) = 3
    /\ \A i \in 1..3 : loadedTable[1][i].status = StatusFailed
    /\ [i \in 1..3 |-> loadedTable[1][i].retryCount] = << 3, 2, 0 >>
    /\ IdsOf(sweepLog[1]) = << 2, 3 >>
    /\ \A k \in 1..2 : sweepLog[1][k].outcome # "skip"

\* C10: one loop iteration changes no row but the one it handles and keeps
\* the sweep going with the remaining rows; a successful resend leaves that
\* row sent with no error and the same retry count; a failed resend leaves
\* it failed with the retry count one higher and the new error text; a
\* skipped row stays as it is.
C10_Step(w) ==
    (sweep[w] = "running" /\ Len(sweepLog'[w]) = Len(sweepLog[w]) + 1) =>
        LET step == sweepLog'[w][Len(sweepLog'[w])]
            before == emailLogs[step.id]
            after == emailLogs'[step.id]
        IN /\ Len(emailLogs') = Len(emailLogs)
           /\ \A j \in 1..Len(emailLogs) : j # step.id => emailLogs'[j] = emailLogs[j]
           /\ sweep'[w] = "running"
           /\ failedEmails'[w] = Tail(failedEmails[w])
           /\ after.subscriber = before.subscriber
           /\ step.outcome = "ok" =>
                 /\ after.status = StatusSent
                 /\ after.errorMessage = NoError
                 /\ after.retryCount = before.retryCount
           /\ step.outcome \in ErrorTexts =>
                 /\ after.status = StatusFailed
                 /\ after.retryCount = before.retryCount + 1
                 /\ after.errorMessage = step.outcome
           /\ step.outcome = "skip" => after = before

C10_RetryOutcomePerRow == [][\A w \in Sweepers : C10_Step(w)]_vars

\* C10 witness: in one sweep a resend failed, a later one succeeded and a
\* row was skipped; the rows show the three outcomes
C10_Witness ==
    /\ sweep[1] = "running"
    /\ Len(sweepLog[1]) = 3
    /\ sweepLog[1][1].outcome \in ErrorTexts
    /\ sweepLog[1][2].outcome = "ok"
    /\ sweepLog[1][3].outcome = "skip"
    /\ emailLogs[sweepLog[1][1].id].status = StatusFailed
    /\ emailLogs[sweepLog[1][1].id].errorMessage \in ErrorTexts
    /\ emailLogs[sweepLog[1][2].id].status = StatusSent
    /\ emailLogs[sweepLog[1][2].id].errorMessage = NoError


\* ------------------------------------------------- concurrent retry sweeps
\* RetryFailedEmailsWithProvider holds no lock and opens no transaction:
\* two callers of the service run their sweeps interleaved at the
\* granularity of the query and of each loop iteration's Save
InitRetryConcurrent ==
    /\ RegistryNone
    /\ isActive \in [RetrySubscribers -> BOOLEAN]
    /\ notificationsSent = [c \in ContentIDs |-> FALSE]
    /\ DispatchIdle
    /\ SchedIdle
    /\ emailLogs = << >>
    /\ sweep = [w \in {1, 2} |-> "idle"]
    /\ failedEmails = [w \in {1, 2} |-> << >>]
    /\ sweepLog = [w \in {1, 2} |-> << >>]
    /\ loadedTable = [w \in {1, 2} |-> << >>]
    /\ resends = << >>
    /\ sendLog = << >>
    /\ BatchIdle
    /\ panicked = FALSE
    /\ StartupIdle
    /\ SelectIdle
    /\ FanIdle
    /\ SMTPBulkIdle
    /\ StatsIdle
    /\ LimiterIdle

SpecRetryConcurrent == InitRetryConcurrent /\ [][NextRetry]_vars

\* C11 (as claimed): over all sweeps, concurrent ones included, a row is
\* resent at most 3 times in total and its stored retry count never exceeds 3.
C11_ResendsWithinCeiling ==
    \A i \in 1..Len(emailLogs) :
        /\ resends[i] <= 3
        /\ emailLogs[i].retryCount <= 3

\* C12 (as claimed): in every step a row that is sent stays sent, no
\* retry count decreases and no row is deleted.
C12_RowStep ==
    /\ Len(emailLogs') >= Len(emailLogs)
    /\ \A i \in 1..Len(emailLogs) :
           /\ emailLogs[i].status = StatusSent => emailLogs'[i].status = StatusSent
           /\ emailLogs'[i].retryCount >= emailLogs[i].retryCount

C12_SentStaysSent == [][C12_RowStep]_vars


\* ================================================= returned-error claims
\* C13 (as claimed): a dispatch returns an error only when the content or
\* its subscriptions could not be loaded: every error a tick got back from
\* a dispatch is one of these load errors.
C13_ErrorOnlyForWholeFailure ==
    \A e \in tickErrors : e.err \in {ErrGetContent, ErrGetSubscriptions}


\* ================================================== scheduler tick claims
\* ids for which the loop of the running tick has called the service
CalledIds == Range(dispatched) \cup { e.id : e \in tickErrors }

\* C14: while a tick runs, the ids already handled are a prefix of the ids
\* the query returned, handled one after the other in that order, and the
\* ids still to come are the rest, whether or not a call returned an
\* error; a tick returns an error only from a failed query, before any
\* id was handled.
C14_TickSequentialAndContinues ==
    /\ tick = "processing" =>
          \E k \in 0..Len(tickPending) :
              /\ pendingContentIDs = SubSeq(tickPending, k + 1, Len(tickPending))
              /\ CalledIds = { tickPending[i] : i \in 1..k }
              /\ SchedulerHasProvider => dispatched = SubSeq(tickPending, 1, k)
    /\ result = "error" => (tick = "idle" /\ tickPending = << >> /\ tickErrors = {})

\* C14 witness: in a tick over two ids the call for the first returned an
\* error and the second was dispatched after it
C14_Witness ==
    /\ tick = "processing"
    /\ pendingContentIDs = << >>
    /\ Len(tickPending) = 2
    /\ dispatched = tickPending
    /\ { e.id : e \in tickErrors } = { tickPending[1] }
    /\ notificationsSent[tickPending[2]]


\* ------------------------------------------------- provider health flag
\* the backend variants that keep a health flag
Variants == {"smtp", "sendgrid", "mailtrap", "generic"}

\* one backend as its constructor leaves it: healthy, counter zero
InitHealth ==
    /\ strategy = "round_robin"
    /\ \E kind \in Variants :
          providers = << Provider(kind, 1, 20, kind # "smtp", 20) >>
    /\ isHealthy = << TRUE >>
    /\ emailsSentHour = << 0 >>
    /\ batch = << << >> >>
    /\ processingChan = << FALSE >>
    /\ isActive = [s \in Subscribers |-> FALSE]
    /\ notificationsSent = [c \in ContentIDs |-> FALSE]
    /\ DispatchIdle
    /\ SchedIdle
    /\ RetryIdle
    /\ sendLog = << << >> >>
    /\ BatchIdle
    /\ panicked = FALSE
    /\ StartupIdle
    /\ SelectIdle
    /\ FanIdle
    /\ SMTPBulkIdle
    /\ StatsIdle
    /\ LimiterIdle

\* one SendEmail call on the backend of provider p, from the call to the
\* return: the transport succeeds or fails and the statistics are updated
SendEmail(p) ==
    /\ Len(sendLog[p]) < MaxAttempts
    /\ \E ok \in Outcomes(p) :
          LET after == BackendAfterSend(p, ok) IN
          /\ isHealthy' = after[1]
          /\ emailsSentHour' = after[2]
          /\ sendLog' = [sendLog EXCEPT ![p] = Append(@, ok)]
    /\ UNCHANGED << strategy, providers, batch, processingChan, isActive, notificationsSent,
                    dispatchVars, schedVars, retryVars, batchVars, panicked,
                    startupVars, selectVars, fanVars, smtpBulk, statsVars, limiterVars >>

NextHealth == \E p \in ProviderIdx : SendEmail(p)

SpecHealth == InitHealth /\ [][NextHealth]_vars

\* C15: after every completed send attempt the health flag of the backend
\* equals the outcome of that attempt: false after any run of failed sends,
\* true again after the next success.
C15_HealthFollowsLastSend ==
    \A p \in DOMAIN sendLog :
        sendLog[p] # << >> => isHealthy[p] = sendLog[p][Len(sendLog[p])]

\* C15 witness: two failed sends in a row were followed by a success and
\* the flag is true again
C15_Witness ==
    /\ sendLog = << << FALSE, FALSE, TRUE >> >>
    /\ BatchIdle
    /\ panicked = FALSE
    /\ StartupIdle
    /\ SelectIdle
    /\ FanIdle
    /\ SMTPBulkIdle
    /\ StatsIdle
    /\ LimiterIdle
    /\ isHealthy = << TRUE >>


\* ================================================== load balancer claims
\* number of places at which message s occurs in distribution d
Occurrences(d, s) ==
    Cardinality({ pos \in ProviderIdx \X (1..NumSubscribers) :
                    pos[2] <= Len(d[pos[1]]) /\ d[pos[1]][pos[2]] = s })

\* C16 (as claimed): when a dispatch is about to distribute its messages
\* round robin, every message is assigned to exactly one provider once and
\* the counts of any two providers of the registry differ by at most 1.
C16_RoundRobinAssignsAllEvenly ==
    (pc = "distribute" /\ strategy = "round_robin") =>
        LET d == RoundRobinDistributeLoad(activeSubscribers) IN
        /\ \A s \in Range(activeSubscribers) : Occurrences(d, s) = 1
        /\ \A i, j \in ProviderIdx : Len(d[i]) - Len(d[j]) <= 1

\* remaining hourly headroom of provider i
Headroom(i) == MaxEmailsPerHour(i) - EmailsSentLastHour(i)

\* the provider WeightedLoadBalancer.DistributeLoad sorts first
FirstByPriority == SortedBy([i \in ProviderIdx |-> GetPriority(i)])[1]

InitBatch ==
    /\ strategy = "round_robin"
    /\ providers \in { << Provider("smtp", 1, 20, FALSE, SMTPBatchSize) >>,
                       << Provider("generic", 1, 20, FALSE, 2) >> }
    /\ isHealthy = << TRUE >>
    /\ emailsSentHour = << 0 >>
    /\ batch = << << >> >>
    /\ processingChan = << FALSE >>
    /\ isActive = [s \in Subscribers |-> FALSE]
    /\ notificationsSent = [c \in ContentIDs |-> FALSE]
    /\ DispatchIdle
    /\ SchedIdle
    /\ RetryIdle
    /\ sendLog = << >>
    /\ BatchIdle
    /\ panicked = FALSE
    /\ StartupIdle
    /\ SelectIdle
    /\ FanIdle
    /\ SMTPBulkIdle
    /\ StatsIdle
    /\ LimiterIdle

\* BatchedEmailProvider.SendEmail on a decorator with a batch manager:
\* AddToBatch appends the message and fires the size trigger; it does not
\* look at stopChan
DecoratorSendEmail(p) ==
    /\ HasBatchManager(p)
    /\ accepted < MaxMessages
    /\ accepted' = accepted + 1
    /\ \E c \in SchedContentIDs :
          /\ contentOf # << >> => c >= contentOf[Len(contentOf)]
          /\ contentOf' = Append(contentOf, c)
    /\ batch' = AddToBatch(batch, p, accepted + 1)
    /\ processingChan' = SizeTrigger(processingChan, batch', p)
    /\ UNCHANGED << strategy, providers, isHealthy, emailsSentHour, isActive,
                    notificationsSent, dispatchVars, schedVars, retryVars, sendLog,
                    manager, inFlight, flushes, panicked, startupVars, selectVars, fanVars, smtpBulk, statsVars, limiterVars >>

\* the ticker case of timeoutProcessor; the task is not inside ProcessBatch
TickerFires(p) ==
    /\ manager[p] # "stopped"
    /\ inFlight[p] = << >>
    /\ TimeoutTick(p)

\* the critical section of ProcessBatch on provider p: an empty accumulator
\* makes it return at once, any other is copied into a batch of its own
Swapped(f, p, currentBatch) ==
    IF currentBatch = << >> THEN f ELSE [f EXCEPT ![p] = Append(@, currentBatch)]

\* the sends of ProcessBatch for the messages it swapped out: each message
\* goes through the backend, the backend's statistics follow the outcomes
SendBatch(p, currentBatch) ==
    LET n == Len(currentBatch) IN
    \E failed \in FlushFailures(n, MaxFaults - faults) :
        /\ providers[p].kind = "generic" => failed = {}
        /\ faults' = faults + Cardinality(failed)
        /\ emailsSentHour' = [emailsSentHour EXCEPT ![p] = @ + n - Cardinality(failed)]
        /\ IF providers[p].kind = "generic" \/ n = 0
           THEN isHealthy' = isHealthy
           ELSE \E h \in HealthAfterFanOut(n, failed) :
                   isHealthy' = [isHealthy EXCEPT ![p] = h]

\* the processingChan case of timeoutProcessor up to the end of the critical
\* section of ProcessBatch: the token is received and the accumulator is
\* swapped out
BackgroundTake(p) ==
    /\ manager[p] # "stopped"
    /\ inFlight[p] = << >>
    /\ processingChan[p]
    /\ processingChan' = [processingChan EXCEPT ![p] = FALSE]
    /\ inFlight' = [inFlight EXCEPT ![p] = batch[p]]
    /\ batch' = [batch EXCEPT ![p] = << >>]
    /\ flushes' = Swapped(flushes, p, batch[p])
    /\ UNCHANGED << strategy, providers, isHealthy, emailsSentHour, isActive,
                    notificationsSent, dispatchVars, schedVars, retryVars, sendLog,
                    manager, accepted, contentOf, panicked, startupVars, selectVars, fanVars, smtpBulk, statsVars, limiterVars >>

\* the rest of that ProcessBatch: the sends return and timeoutProcessor goes
\* back to its select
BackgroundSent(p) ==
    /\ inFlight[p] # << >>
    /\ SendBatch(p, inFlight[p])
    /\ inFlight' = [inFlight EXCEPT ![p] = << >>]
    /\ UNCHANGED << strategy, providers, batch, processingChan, isActive, notificationsSent,
                    pc, contentID, activeSubscribers, queue, sentCount, result, runRecords,
                    bulkCalls, singleCalls, path, healthAtDecision, notifiedAtStart, runs,
                    schedVars, retryVars, sendLog, manager, accepted, contentOf, flushes,
                    panicked,
                    startupVars, selectVars, fanVars, smtpBulk, statsVars, limiterVars >>

\* AsyncBatchManager.Stop, from the call to the return: stopChan is closed
\* and whatever the accumulator holds is flushed by a synchronous ProcessBatch
Stop(p) ==
    /\ manager[p] = "running"
    /\ manager' = [manager EXCEPT ![p] = "stopping"]
    /\ SendBatch(p, batch[p])
    /\ batch' = [batch EXCEPT ![p] = << >>]
    /\ flushes' = Swapped(flushes, p, batch[p])
    /\ UNCHANGED << strategy, providers, processingChan, isActive, notificationsSent,
                    pc, contentID, activeSubscribers, queue, sentCount, result, runRecords,
                    bulkCalls, singleCalls, path, healthAtDecision, notifiedAtStart, runs,
                    schedVars, retryVars, sendLog, inFlight, accepted, contentOf, panicked,
                    startupVars, selectVars, fanVars, smtpBulk, statsVars, limiterVars >>

\* the stopChan case of timeoutProcessor: the ticker is stopped and the task
\* returns
BackgroundExit(p) ==
    /\ manager[p] = "stopping"
    /\ inFlight[p] = << >>
    /\ manager' = [manager EXCEPT ![p] = "stopped"]
    /\ UNCHANGED << registryVars, isActive, notificationsSent, dispatchVars, schedVars,
                    retryVars, sendLog, inFlight, accepted, contentOf, flushes, panicked,
                    startupVars, selectVars, fanVars, smtpBulk, statsVars, limiterVars >>

NextBatch ==
    \/ \E p \in ProviderIdx : DecoratorSendEmail(p)
    \/ \E p \in ProviderIdx : TickerFires(p)
    \/ \E p \in ProviderIdx : BackgroundTake(p)
    \/ \E p \in ProviderIdx : BackgroundSent(p)
    \/ \E p \in ProviderIdx : Stop(p)
    \/ \E p \in ProviderIdx : BackgroundExit(p)

SpecBatch == InitBatch /\ [][NextBatch]_vars

\* the ticker keeps firing and timeoutProcessor keeps serving its select for
\* as long as it has not returned; a send call returns
SpecBatchLive ==
    /\ SpecBatch
    /\ WF_vars(TickerFires(1))
    /\ WF_vars(BackgroundTake(1))
    /\ WF_vars(BackgroundSent(1))

\* C18: while the batch manager runs, an accumulator that has reached the
\* batch size always has a flush triggered (the token is in processingChan,
\* no tick needed), and a non-empty accumulator is eventually swapped out for
\* sending
C18_AcceptedIsFlushed ==
    /\ [](\A p \in DOMAIN batch :
             Len(batch[p]) >= BatchSize(p) => processingChan[p])
    /\ (batch[1] # << >> /\ manager[1] = "running")
          ~> (batch[1] = << >> \/ manager[1] # "running")

\* two messages went out in a first flush and a third, alone in the
\* accumulator of batch size 2, got its flush triggered by the ticker
C18_Witness ==
    /\ BatchSize(1) = 2
    /\ manager[1] = "running"
    /\ accepted = 3
    /\ emailsSentHour[1] = 2
    /\ batch[1] = << 3 >>
    /\ processingChan[1]

\* what a return of Stop leaves behind
C19_StopStep ==
    \A p \in DOMAIN manager :
        (manager[p] = "running" /\ manager'[p] # "running")
            => (batch'[p] = << >> /\ inFlight'[p] = << >>)

\* C19: when Stop returns nothing is left in the accumulator and no flush is
\* still running in the background task
C19_StopLeavesNothingBehind == [][C19_StopStep]_vars

\* ------------------------------------- service without a provider registry
\* NewService: providerFactory is nil. The provider argument of
\* SendNotificationsByContentIDWithProvider is provider 1 of the sequence;
\* the empty sequence is the nil provider (none configured)
InitSingle ==
    /\ strategy = "round_robin"
    /\ providers \in { << >>, << Provider("smtp", 1, 20, FALSE, SMTPBatchSize) >> }
    /\ isHealthy = [i \in DOMAIN providers |-> TRUE]
    /\ emailsSentHour = [i \in DOMAIN providers |-> 0]
    /\ batch = [i \in DOMAIN providers |-> << >>]
    /\ processingChan = [i \in DOMAIN providers |-> FALSE]
    /\ \E n \in RecipientCounts : isActive = [s \in Subscribers |-> s <= n]
    /\ notificationsSent = [c \in ContentIDs |-> FALSE]
    /\ DispatchIdle
    /\ SchedIdle
    /\ RetryIdle
    /\ sendLog = << >>
    /\ BatchIdle
    /\ panicked = FALSE
    /\ StartupIdle
    /\ SelectIdle
    /\ FanIdle
    /\ SMTPBulkIdle
    /\ StatsIdle
    /\ LimiterIdle

\* SendNotificationsByContentIDWithProvider with providerFactory = nil:
\* sendNotificationsSingleProvider up to the start of sendEmailsConcurrently
sendNotificationsSingleProvider(c) ==
    /\ ~panicked
    /\ pc = "idle"
    /\ runs < MaxRuns
    /\ runs' = runs + 1
    /\ contentID' = c
    /\ runRecords' = Pending
    /\ bulkCalls' = << >>
    /\ singleCalls' = 0
    /\ sentCount' = 0
    /\ healthAtDecision' = isHealthy
    /\ IF c \notin ContentIDs
       THEN \* GetContentByID fails
            /\ result' = "error"
            /\ pc' = "idle"
            /\ path' = "none"
            /\ activeSubscribers' = << >>
            /\ queue' = << >>
            /\ notifiedAtStart' = FALSE
       ELSE LET active == ResolveActiveSubscribers IN
            /\ activeSubscribers' = active
            /\ notifiedAtStart' = notificationsSent[c]
            /\ result' = "nil"
            /\ IF Len(active) = 0
               THEN pc' = "done" /\ path' = "none" /\ queue' = << >>
               ELSE /\ pc' = "sending"
                    /\ path' = "single"
                    /\ queue' = [i \in 1..Len(active) |-> << 1, active[i] >>]
    /\ UNCHANGED << registryVars, isActive, notificationsSent, faults, schedVars, retryVars,
                    sendLog, batchVars, panicked, startupVars, selectVars, fanVars, smtpBulk, statsVars, limiterVars >>

\* one goroutine of sendEmailsConcurrently: provider.SendEmail, then LogEmail.
\* The call on a nil provider panics in the goroutine, which ends the process
\* before anything is logged
GoroutineSend ==
    /\ ~panicked
    /\ pc = "sending"
    /\ queue # << >>
    /\ IF providers = << >>
       THEN /\ panicked' = TRUE
            /\ UNCHANGED << registryVars, isActive, notificationsSent, dispatchVars,
                            schedVars, retryVars, sendLog, batchVars, startupVars, selectVars, fanVars, smtpBulk, statsVars, limiterVars >>
       ELSE LET p == Head(queue)[1]
                r == Head(queue)[2]
            IN \E ok \in Outcomes(p) :
                /\ ~ok => faults < MaxFaults
                /\ faults' = IF ok THEN faults ELSE faults + 1
                /\ queue' = Tail(queue)
                /\ singleCalls' = singleCalls + 1
                /\ isHealthy' = BackendAfterSend(p, ok)[1]
                /\ emailsSentHour' = BackendAfterSend(p, ok)[2]
                /\ runRecords' = IF ok THEN logEmailSuccess(runRecords, r, "ok")
                                 ELSE logEmailFailure(runRecords, r)
                /\ sentCount' = sentCount + (IF ok THEN 1 ELSE 0)
                /\ UNCHANGED << strategy, providers, batch, processingChan, isActive,
                                notificationsSent, pc, contentID, activeSubscribers, result,
                                bulkCalls, path, healthAtDecision, notifiedAtStart, runs,
                                schedVars, retryVars, sendLog, batchVars, panicked,
                                startupVars, selectVars, fanVars, smtpBulk, statsVars, limiterVars >>

\* the end of sendNotificationsSingleProvider: every goroutine is done, the
\* content is marked (totalCount > 0), nil is returned
FinishSingle ==
    /\ ~panicked
    /\ pc = "sending"
    /\ queue = << >>
    /\ notificationsSent' = MarkNotificationsSent(notificationsSent, contentID)
    /\ result' = "nil"
    /\ pc' = "done"
    /\ UNCHANGED << registryVars, isActive, contentID, activeSubscribers, queue, sentCount,
                    runRecords, bulkCalls, singleCalls, path, healthAtDecision,
                    notifiedAtStart, runs, faults, schedVars, retryVars, sendLog,
                    batchVars, panicked, startupVars, selectVars, fanVars, smtpBulk, statsVars, limiterVars >>

NextSingle ==
    \/ \E c \in ContentIDs \cup {MissingContentID} : sendNotificationsSingleProvider(c)
    \/ GoroutineSend
    \/ FinishSingle
    \/ Return

SpecSingle == InitSingle /\ [][NextSingle]_vars

\* C20: with no provider configured a dispatch call never crashes, never
\* returns without an error, never attempts a send, writes no row and leaves
\* the notifications-sent flag as it was
C20_NoProviderIsAnError ==
    providers = << >> =>
        /\ ~panicked
        /\ pc = "done" => result = "error"
        /\ singleCalls = 0 /\ bulkCalls = << >>
        /\ runRecords = Pending
        /\ \A c \in ContentIDs : ~notificationsSent[c]

\* =========================================== load balancer claims, part 2
\* C22: when a dispatch is about to distribute its messages by weight, the
\* lists of the providers form a partition of the messages: every message
\* occurs at exactly one place
C22_WeightedIsPartition ==
    (pc = "distribute" /\ strategy = "weighted") =>
        LET d == WeightedDistributeLoad(activeSubscribers) IN
        \A s \in Range(activeSubscribers) : Occurrences(d, s) = 1

\* -------------------------------------------------- registry construction
\* what cfg.SMTP / cfg.API hold for one enabled name; kind "missing" is a
\* name found in neither map
ConfigEntry(kind, host, port, username, password, token) ==
    [kind |-> kind, host |-> host, port |-> port, username |-> username,
     password |-> password, token |-> token]

ConfigEntries ==
    { ConfigEntry("smtp", h, n, u, w, "") :
          h \in {"", "host"}, n \in {0, 587}, u \in {"", "user"}, w \in {"", "secret"} }
    \cup { ConfigEntry("generic", "", 0, "", "", t) : t \in {"", "token"} }
    \cup { ConfigEntry("missing", "", 0, "", "", "") }

\* ValidateConfig of the provider built from entry e: SMTPConfig.Validate for
\* SMTP, GenericAPIProvider.ValidateConfig for an API provider
ValidateConfig(e) ==
    IF e.kind = "smtp"
    THEN e.host # "" /\ e.port > 0 /\ e.username # "" /\ e.password # ""
    ELSE e.token # ""

\* the name is a key of cfg.SMTP or of cfg.API
Configured(e) == e.kind # "missing"

\* the loop of NewProviderFactory over cfg.Enabled: one decorated provider
\* per name found in cfg.SMTP or cfg.API, in order
BuildProviders(cfg) ==
    LET kept == SelectSeq(cfg, Configured)
    IN [k \in 1..Len(kept) |-> Provider(kept[k].kind, k, 20, FALSE, 2)]

InitStartup ==
    /\ strategy \in Strategies
    /\ providers = << >>
    /\ isHealthy = << >>
    /\ emailsSentHour = << >>
    /\ batch = << >>
    /\ processingChan = << >>
    /\ isActive = [s \in Subscribers |-> FALSE]
    /\ notificationsSent = [c \in ContentIDs |-> FALSE]
    /\ DispatchIdle
    /\ SchedIdle
    /\ RetryIdle
    /\ sendLog = << >>
    /\ BatchIdle
    /\ panicked = FALSE
    /\ config \in UNION { [1..n -> ConfigEntries] : n \in 0..MaxEnabled }
    /\ startup = "init"
    /\ SelectIdle
    /\ FanIdle
    /\ SMTPBulkIdle
    /\ StatsIdle
    /\ LimiterIdle

\* NewProviderFactory: the registry is built; an empty one is an error
NewProviderFactory ==
    /\ startup = "init"
    /\ providers' = BuildProviders(config)
    /\ startup' = IF Len(providers') = 0 THEN "failed" ELSE "ready"
    /\ isHealthy' = [i \in DOMAIN providers' |-> TRUE]
    /\ emailsSentHour' = [i \in DOMAIN providers' |-> 0]
    /\ batch' = [i \in DOMAIN providers' |-> << >>]
    /\ processingChan' = [i \in DOMAIN providers' |-> FALSE]
    /\ manager' = [i \in DOMAIN providers' |-> "running"]
    /\ inFlight' = [i \in DOMAIN providers' |-> << >>]
    /\ flushes' = [i \in DOMAIN providers' |-> << >>]
    /\ UNCHANGED << strategy, isActive, notificationsSent, dispatchVars, schedVars, retryVars,
                    sendLog, accepted, contentOf, panicked, config, selectVars, fanVars, smtpBulk, statsVars, limiterVars >>

NextStartup == NewProviderFactory

SpecStartup == InitStartup /\ [][NextStartup]_vars

\* the enabled names whose provider passes ValidateConfig
ValidEntries == SelectSeq(config, LAMBDA e : Configured(e) /\ ValidateConfig(e))

\* C21: after start-up the registry holds exactly the enabled providers whose
\* configuration is complete, in order, and construction fails only when no
\* such provider exists
C21_RegistryHoldsValidProviders ==
    startup # "init" =>
        /\ startup = "failed" <=> ValidEntries = << >>
        /\ Len(providers) = Len(ValidEntries)
        /\ \A k \in DOMAIN providers : providers[k].kind = ValidEntries[k].kind

\* C23: when a dispatch is about to distribute M messages by least load and
\* some provider is healthy, every message is assigned exactly once and the
\* j-th provider in ascending load order gets M \div N messages, one more
\* when j is within the remainder
C23_LeastLoadAssignsAll ==
    (pc = "distribute" /\ strategy = "least_load" /\ HealthyProviders # << >>) =>
        LET d == LeastLoadDistributeLoad(activeSubscribers)
            M == Len(activeSubscribers)
            sorted == SortedBy([i \in ProviderIdx |-> CurrentLoad(i)])
        IN /\ \A s \in Range(activeSubscribers) : Occurrences(d, s) = 1
           /\ \A j \in ProviderIdx :
                 Len(d[sorted[j]]) = (M \div NP) + (IF j - 1 < M % NP THEN 1 ELSE 0)

\* ----------------------------------------------------- provider selection
\* nil, where a provider index is expected
Nil == 0

SelectCallers == {1, 2}

\* registries SelectProvider is applied to; hourly cap 2, so that the
\* counters go beyond the cap
SelectRegistries ==
    { << >>,
      << Provider("generic", 2, 2, FALSE, 2), Provider("smtp", 3, 2, FALSE, SMTPBatchSize) >>,
      << Provider("smtp", 1, 2, FALSE, SMTPBatchSize), Provider("generic", 1, 2, FALSE, 2) >>,
      << Provider("smtp", 1, 2, FALSE, SMTPBatchSize),
         Provider("smtp", 2, 2, FALSE, SMTPBatchSize),
         Provider("smtp", 3, 2, FALSE, SMTPBatchSize) >> }

\* variant of the counter increment that leaves the counter as it is
variantAddUint64None(c) == c

\* atomic.AddUint64(&lb.counter, 1); within MaxSelects calls the counter
\* stays far below the 64-bit wrap
AddUint64(c) == c + 1

\* RoundRobinLoadBalancer.SelectProvider after the healthy list is built:
\* c is the value AddUint64 returned
RoundRobinSelect(healthy, c) ==
    IF NP = 0 THEN Nil
    ELSE IF Len(healthy) = 0 THEN 1
    ELSE healthy[(c % Len(healthy)) + 1]

\* WeightedLoadBalancer.SelectProvider
WeightedSelectProvider ==
    IF NP = 0 THEN Nil
    ELSE LET sorted == SortedBy([i \in ProviderIdx |-> GetPriority(i)])
             fits(j) == /\ IsHealthy(sorted[j])
                        /\ EmailsSentLastHour(sorted[j]) < MaxEmailsPerHour(sorted[j])
                        /\ CurrentLoad(sorted[j]) < 90
         IN IF \E j \in ProviderIdx : fits(j)
            THEN sorted[CHOOSE j \in ProviderIdx :
                           fits(j) /\ \A k \in 1..(j - 1) : ~fits(k)]
            ELSE sorted[1]

\* the loop of LeastLoadLoadBalancer.SelectProvider over providers[i..]:
\* best and lowestLoad as they stand before provider i is looked at
RECURSIVE LeastLoadScan(_, _, _)
LeastLoadScan(i, best, lowestLoad) ==
    IF i > NP THEN best
    ELSE IF IsHealthy(i) /\ CurrentLoad(i) < lowestLoad
         THEN LeastLoadScan(i + 1, i, CurrentLoad(i))
         ELSE LeastLoadScan(i + 1, best, lowestLoad)

\* LeastLoadLoadBalancer.SelectProvider
LeastLoadSelectProvider ==
    IF NP = 0 THEN Nil
    ELSE LET bestProvider == LeastLoadScan(1, Nil, 101)
         IN IF bestProvider # Nil THEN bestProvider ELSE 1

Idle == [busy |-> FALSE, healthy |-> << >>]

\* a load balancer over a registry whose backends have sent some emails in
\* this hour; a GenericAPIProvider never turns unhealthy
InitSelect ==
    /\ strategy \in Strategies
    /\ providers \in SelectRegistries
    /\ isHealthy \in [DOMAIN providers -> BOOLEAN]
    /\ \A i \in DOMAIN providers : providers[i].kind = "generic" => isHealthy[i]
    /\ emailsSentHour \in [DOMAIN providers -> 0..MaxSentHour]
    /\ batch = [i \in DOMAIN providers |-> << >>]
    /\ processingChan = [i \in DOMAIN providers |-> FALSE]
    /\ isActive = [s \in Subscribers |-> FALSE]
    /\ notificationsSent = [c \in ContentIDs |-> FALSE]
    /\ DispatchIdle
    /\ SchedIdle
    /\ RetryIdle
    /\ sendLog = << >>
    /\ BatchIdle
    /\ panicked = FALSE
    /\ StartupIdle
    /\ counter = 0
    /\ selecting = [w \in SelectCallers |-> Idle]
    /\ selections = << >>
    /\ FanIdle
    /\ SMTPBulkIdle
    /\ StatsIdle
    /\ LimiterIdle

Started == Len(selections) + Cardinality({ w \in SelectCallers : selecting[w].busy })

\* RoundRobinLoadBalancer.SelectProvider by caller w up to the end of the
\* health filter
FilterHealthy(w) ==
    /\ strategy = "round_robin"
    /\ ~selecting[w].busy
    /\ Started < MaxSelects
    /\ selecting' = [selecting EXCEPT ![w] = [busy |-> TRUE, healthy |-> HealthyProviders]]
    /\ UNCHANGED << registryVars, isActive, notificationsSent, dispatchVars, schedVars,
                    retryVars, sendLog, batchVars, panicked, startupVars, counter,
                    selections, fanVars, smtpBulk, statsVars, limiterVars >>

\* the rest of that call: the counter is incremented atomically and the
\* provider at the index is returned
AddAndReturn(w) ==
    /\ selecting[w].busy
    /\ LET healthy == selecting[w].healthy
           bumps == NP > 0 /\ Len(healthy) > 0
           c == IF bumps THEN AddUint64(counter) ELSE counter
       IN /\ counter' = c
          /\ selections' = Append(selections,
                                  [healthy |-> healthy, provider |-> RoundRobinSelect(healthy, c)])
    /\ selecting' = [selecting EXCEPT ![w] = Idle]
    /\ UNCHANGED << registryVars, isActive, notificationsSent, dispatchVars, schedVars,
                    retryVars, sendLog, batchVars, panicked, startupVars, fanVars, smtpBulk, statsVars, limiterVars >>

\* SelectProvider of the weighted or of the least-load balancer by caller w
SelectByStats(w) ==
    /\ strategy # "round_robin"
    /\ ~selecting[w].busy
    /\ Started < MaxSelects
    /\ selections' = Append(selections,
                            [healthy |-> HealthyProviders,
                             provider |-> IF strategy = "weighted" THEN WeightedSelectProvider
                                          ELSE LeastLoadSelectProvider])
    /\ UNCHANGED << registryVars, isActive, notificationsSent, dispatchVars, schedVars,
                    retryVars, sendLog, batchVars, panicked, startupVars, counter,
                    selecting, fanVars, smtpBulk, statsVars, limiterVars >>

NextSelect ==
    \/ \E w \in SelectCallers : FilterHealthy(w)
    \/ \E w \in SelectCallers : AddAndReturn(w)
    \/ \E w \in SelectCallers : SelectByStats(w)

SpecSelect == InitSelect /\ [][NextSelect]_vars

\* ProviderFactory.GetProvider: the provider a SelectProvider call made in
\* this state returns
GetProvider ==
    CASE strategy = "weighted" -> WeightedSelectProvider
      [] strategy = "least_load" -> LeastLoadSelectProvider
      [] OTHER -> RoundRobinSelect(HealthyProviders, AddUint64(counter))

\* C24: with providers configured and none healthy, SelectProvider returns a
\* provider and a distribution of a non-empty message list is not empty
C24_NoHealthyStillAssigns ==
    (pc = "distribute" /\ NP >= 1 /\ HealthyProviders = << >> /\ activeSubscribers # << >>) =>
        /\ GetProvider # Nil
        /\ DistributeEmails(activeSubscribers) # NoDistribution

\* C25: every round-robin selection is nil exactly for an empty registry,
\* the first provider when none is healthy, and otherwise a healthy
\* provider; H selections in a row over H healthy providers return each of
\* them once
C25_RoundRobinCycles ==
    strategy = "round_robin" =>
        \A k \in DOMAIN selections :
            LET e == selections[k]
                H == Len(e.healthy)
            IN /\ e.provider = Nil <=> NP = 0
               /\ (NP > 0 /\ H = 0) => e.provider = 1
               /\ H > 0 => e.provider \in Range(e.healthy)
               /\ (H > 0 /\ k + H - 1 <= Len(selections)) =>
                     { selections[j].provider : j \in k..(k + H - 1) } = Range(e.healthy)

\* three selections over three healthy providers are done and a further call
\* is between its health filter and its counter increment
C25_Witness ==
    /\ strategy = "round_robin"
    /\ Len(HealthyProviders) = 3
    /\ Len(selections) = 3
    /\ \E w \in SelectCallers : selecting[w].busy

\* C26: every weighted selection is a provider of smallest configured
\* priority number among those healthy, below 90% load and below their cap,
\* or among all providers when there is none such
C26_WeightedPicksByConfiguredPriority ==
    (strategy = "weighted" /\ NP > 0) =>
        LET eligible == { i \in ProviderIdx :
                            /\ IsHealthy(i)
                            /\ CurrentLoad(i) < 90
                            /\ EmailsSentLastHour(i) < MaxEmailsPerHour(i) }
            pool == IF eligible # {} THEN eligible ELSE ProviderIdx
        IN \A k \in DOMAIN selections :
              /\ selections[k].provider \in pool
              /\ \A i \in pool :
                    providers[selections[k].provider].priority <= providers[i].priority

\* C27: every least-load selection is a healthy provider of minimal load
\* among the healthy ones, and the first provider only when none is healthy
C27_LeastLoadPicksMinimalHealthy ==
    (strategy = "least_load" /\ NP > 0) =>
        \A k \in DOMAIN selections :
            LET chosen == selections[k].provider IN
            IF HealthyProviders # << >>
            THEN /\ IsHealthy(chosen)
                 /\ \A i \in ProviderIdx : IsHealthy(i) => CurrentLoad(chosen) <= CurrentLoad(i)
            ELSE chosen = 1

\* ================================================ batch decorator claims
\* C28: the accumulator of a batch manager never holds more messages than
\* the configured batch size
C28_AccumulatorWithinBatchSize ==
    \A p \in DOMAIN batch : Len(batch[p]) <= BatchSize(p)

\* C29: every batch that was swapped out for a flush holds messages of one
\* content item only
C29_BatchHasOneContent ==
    \A p \in DOMAIN flushes :
        \A k \in DOMAIN flushes[p] :
            \A i, j \in DOMAIN flushes[p][k] :
                contentOf[flushes[p][k][i]] = contentOf[flushes[p][k][j]]

\* number of places at which message m sits in the accumulator or in a
\* flushed batch of provider p
PlacesOf(m, p) ==
    Cardinality({ i \in DOMAIN batch[p] : batch[p][i] = m })
    + Cardinality({ pos \in (DOMAIN flushes[p]) \X (1..MaxMessages) :
                      pos[2] <= Len(flushes[p][pos[1]]) /\ flushes[p][pos[1]][pos[2]] = m })

\* an accepted message waits in the accumulator or is in exactly one flushed
\* batch, and nothing waits in an accumulator whose background task is gone
C30_Placement ==
    \A p \in DOMAIN batch :
        /\ \A m \in 1..accepted : PlacesOf(m, p) = 1
        /\ manager[p] = "stopped" => batch[p] = << >>

\* a batch that is being flushed, and every batch flushed before, stays as
\* it is
C30_FlushStep ==
    \A p \in DOMAIN inFlight :
        /\ inFlight[p] # << >> => inFlight'[p] \in { inFlight[p], << >> }
        /\ \A k \in DOMAIN flushes[p] : flushes'[p][k] = flushes[p][k]

\* C30: under any interleaving of AddToBatch calls, flushes and Stop every
\* accepted message gets into exactly one flushed batch, none is lost or
\* flushed twice, and a batch does not change while it is flushed
C30_ExactlyOneFlush == [](C30_Placement) /\ [][C30_FlushStep]_vars


\* ================================================= goroutines and semaphores
\* sends of one flush a message may start before the batch is exhausted
MaxFanOut == 6

\* capacity of the semaphore ProcessBatch makes for its fan-out
FanOutLimit == 5

\* goroutines of the running call that hold a semaphore slot
Holders == { k \in DOMAIN tasks : tasks[k] = "sending" }

\* a send on the semaphore channel (capacity cap, held slots taken) proceeds:
\* a buffered channel takes the value while it is not full; nothing ever
\* receives from the channel except the release of a holder, so a send on an
\* unbuffered channel (cap = 0) finds no receiver
\* variant of the channel send that also proceeds on a full channel
variantCanAcquireWhenFull(held, cap) == held <= cap

CanAcquire(held, cap) == held < cap

\* one wrapped provider without native bulk support, and nothing accumulated
InitFanOut ==
    /\ strategy = "round_robin"
    /\ providers \in { << Provider("smtp", 1, 20, FALSE, SMTPBatchSize) >>,
                       << Provider("generic", 1, 20, FALSE, 2) >> }
    /\ isHealthy = << TRUE >>
    /\ emailsSentHour = << 0 >>
    /\ batch = << << >> >>
    /\ processingChan = << FALSE >>
    /\ isActive = [s \in Subscribers |-> FALSE]
    /\ notificationsSent = [c \in ContentIDs |-> FALSE]
    /\ DispatchIdle
    /\ SchedIdle
    /\ RetryIdle
    /\ sendLog = << >>
    /\ BatchIdle
    /\ panicked = FALSE
    /\ StartupIdle
    /\ SelectIdle
    /\ FanIdle
    /\ SMTPBulkIdle
    /\ StatsIdle
    /\ LimiterIdle

\* ProcessBatch on a backend without bulk support, up to the end of the spawn
\* loop: an empty batch returns nil at once, otherwise one goroutine per
\* message of the swapped-out batch
FanOutStart(n) ==
    /\ fanResult = "idle"
    /\ ~BackendSupportsBulk(1)
    /\ IF n = 0
       THEN /\ fanResult' = "nil"
            /\ UNCHANGED << semaphore, tasks, attempts >>
       ELSE /\ fanResult' = "running"
            /\ semaphore' = FanOutLimit
            /\ tasks' = [k \in 1..n |-> "spawned"]
            /\ attempts' = [k \in 1..n |-> 0]
    /\ UNCHANGED << registryVars, isActive, notificationsSent, dispatchVars, schedVars,
                    retryVars, sendLog, batchVars, panicked, startupVars, selectVars,
                    workerConfig, smtpBulk, statsVars, limiterVars >>

\* goroutine k of the fan-out: semaphore <- struct{}{}
FanOutAcquire(k) ==
    /\ fanResult = "running"
    /\ k \in DOMAIN tasks
    /\ tasks[k] = "spawned"
    /\ CanAcquire(Cardinality(Holders), semaphore)
    /\ tasks' = [tasks EXCEPT ![k] = "sending"]
    /\ UNCHANGED << registryVars, isActive, notificationsSent, dispatchVars, schedVars,
                    retryVars, sendLog, batchVars, panicked, startupVars, selectVars,
                    workerConfig, semaphore, attempts, fanResult, smtpBulk, statsVars, limiterVars >>

\* goroutine k of the fan-out: bm.provider.SendEmail returns, the error (if
\* any) goes to errorChan, the deferred functions release the slot and
\* call wg.Done
FanOutSendEmail(k) ==
    /\ fanResult = "running"
    /\ k \in DOMAIN tasks
    /\ tasks[k] = "sending"
    /\ \E ok \in Outcomes(1) :
          /\ tasks' = [tasks EXCEPT ![k] = IF ok THEN "ok" ELSE "failed"]
          /\ isHealthy' = BackendAfterSend(1, ok)[1]
          /\ emailsSentHour' = BackendAfterSend(1, ok)[2]
    /\ attempts' = [attempts EXCEPT ![k] = @ + 1]
    /\ UNCHANGED << strategy, providers, batch, processingChan, isActive, notificationsSent,
                    dispatchVars, schedVars, retryVars, sendLog, batchVars, panicked,
                    startupVars, selectVars, workerConfig, semaphore, fanResult, smtpBulk, statsVars, limiterVars >>

\* ProcessBatch after wg.Wait: errorChan is closed and drained, and the
\* summary error is returned iff it held at least one error
FanOutReturn ==
    /\ fanResult = "running"
    /\ \A k \in DOMAIN tasks : tasks[k] \in {"ok", "failed"}
    /\ fanResult' = IF \E k \in DOMAIN tasks : tasks[k] = "failed" THEN "error" ELSE "nil"
    /\ UNCHANGED << registryVars, isActive, notificationsSent, dispatchVars, schedVars,
                    retryVars, sendLog, batchVars, panicked, startupVars, selectVars,
                    workerConfig, semaphore, tasks, attempts, smtpBulk, statsVars, limiterVars >>

NextFanOut ==
    \/ \E n \in 0..MaxFanOut : FanOutStart(n)
    \/ \E k \in 1..MaxFanOut : FanOutAcquire(k)
    \/ \E k \in 1..MaxFanOut : FanOutSendEmail(k)
    \/ FanOutReturn

SpecFanOut == InitFanOut /\ [][NextFanOut]_vars

\* C31: a flush through a wrapped provider without native bulk support never
\* has more than 5 sends in flight, never sends a message twice, and when it
\* returns it has sent every message of the batch exactly once and returns the
\* summary error iff at least one send failed (nil otherwise, also for the
\* empty batch).
C31_FanOutSendsEachOnce ==
    /\ Cardinality(Holders) <= 5
    /\ \A k \in DOMAIN tasks :
          attempts[k] = (IF tasks[k] \in {"ok", "failed"} THEN 1 ELSE 0)
    /\ fanResult \in {"nil", "error"} =>
          /\ \A k \in DOMAIN tasks : attempts[k] = 1
          /\ fanResult = "error" <=> \E k \in DOMAIN tasks : tasks[k] = "failed"

\* C31 witness: a flush of more than 5 messages returned the summary error
\* after one failed and the others succeeded
C31_Witness ==
    /\ semaphore = FanOutLimit
    /\ fanResult = "error"
    /\ Len(tasks) > 5
    /\ Cardinality({ k \in DOMAIN tasks : tasks[k] = "failed" }) = 1


\* -------------------------------------------- distributed dispatch, by task
\* largest max_async_process explored
MaxPool == 3

\* values cfg.Worker.MaxAsyncProcess can hold: an int read from the
\* configuration file, 0 when the key is absent
PoolSizes == (-1)..MaxPool

\* notificationService.getConcurrencyLimit
\* variant that returns one more than the configured pool size
variantGetConcurrencyLimitPlusOne ==
    IF workerConfig # << >> THEN workerConfig[1].MaxAsyncProcess + 1 ELSE 10

getConcurrencyLimit ==
    IF workerConfig # << >> THEN workerConfig[1].MaxAsyncProcess ELSE 10

\* NewServiceWithProviders: workerConfig points to cfg.Worker; the registry
\* holds one healthy provider that sends without a batch manager
InitPool ==
    /\ strategy = "round_robin"
    /\ providers = << Provider("sendgrid", 1, 20, TRUE, 20) >>
    /\ isHealthy = << TRUE >>
    /\ emailsSentHour = << 0 >>
    /\ batch = << << >> >>
    /\ processingChan = << FALSE >>
    /\ isActive = [s \in Subscribers |-> FALSE]
    /\ notificationsSent = [c \in ContentIDs |-> FALSE]
    /\ DispatchIdle
    /\ SchedIdle
    /\ RetryIdle
    /\ sendLog = << >>
    /\ BatchIdle
    /\ panicked = FALSE
    /\ StartupIdle
    /\ SelectIdle
    /\ \E m \in PoolSizes : workerConfig = << [MaxAsyncProcess |-> m] >>
    /\ semaphore = 0
    /\ tasks = << >>
    /\ attempts = << >>
    /\ fanResult = "idle"
    /\ SMTPBulkIdle
    /\ StatsIdle
    /\ LimiterIdle
    /\ StatsIdle
    /\ LimiterIdle

\* sendDistributedEmails for n messages of content 1 up to the end of the
\* spawn loop: make panics on a negative capacity, otherwise one goroutine
\* per message
PoolStart(n) ==
    /\ fanResult = "idle"
    /\ IF getConcurrencyLimit < 0
       THEN /\ fanResult' = "panic"
            /\ panicked' = TRUE
            /\ UNCHANGED << semaphore, tasks, attempts >>
       ELSE /\ fanResult' = "running"
            /\ semaphore' = getConcurrencyLimit
            /\ tasks' = [k \in 1..n |-> "spawned"]
            /\ attempts' = [k \in 1..n |-> 0]
            /\ UNCHANGED panicked
    /\ UNCHANGED << registryVars, isActive, notificationsSent, dispatchVars, schedVars,
                    retryVars, sendLog, batchVars, startupVars, selectVars, workerConfig, smtpBulk, statsVars, limiterVars >>

\* send task k: semaphore <- struct{}{}
PoolAcquire(k) ==
    /\ fanResult = "running"
    /\ k \in DOMAIN tasks
    /\ tasks[k] = "spawned"
    /\ CanAcquire(Cardinality(Holders), semaphore)
    /\ tasks' = [tasks EXCEPT ![k] = "sending"]
    /\ UNCHANGED << registryVars, isActive, notificationsSent, dispatchVars, schedVars,
                    retryVars, sendLog, batchVars, panicked, startupVars, selectVars,
                    workerConfig, semaphore, attempts, fanResult, smtpBulk, statsVars, limiterVars >>

\* send task k: p.SendEmail returns, 0 or 1 goes to successCount, the
\* deferred functions release the slot and call wg.Done
PoolSendEmail(k) ==
    /\ fanResult = "running"
    /\ k \in DOMAIN tasks
    /\ tasks[k] = "sending"
    /\ \E ok \in Outcomes(1) :
          /\ tasks' = [tasks EXCEPT ![k] = IF ok THEN "ok" ELSE "failed"]
          /\ isHealthy' = BackendAfterSend(1, ok)[1]
          /\ emailsSentHour' = BackendAfterSend(1, ok)[2]
    /\ attempts' = [attempts EXCEPT ![k] = @ + 1]
    /\ UNCHANGED << strategy, providers, batch, processingChan, isActive, notificationsSent,
                    dispatchVars, schedVars, retryVars, sendLog, batchVars, panicked,
                    startupVars, selectVars, workerConfig, semaphore, fanResult, smtpBulk, statsVars, limiterVars >>

\* the end of sendDistributedEmails: wg.Wait has returned and successCount
\* is closed, the range loop ends, the content is marked when sentCount > 0
\* and nil is returned
PoolReturn ==
    /\ fanResult = "running"
    /\ \A k \in DOMAIN tasks : tasks[k] \in {"ok", "failed"}
    /\ notificationsSent' = IF \E k \in DOMAIN tasks : tasks[k] = "ok"
                            THEN MarkNotificationsSent(notificationsSent, 1)
                            ELSE notificationsSent
    /\ fanResult' = "nil"
    /\ UNCHANGED << registryVars, isActive, dispatchVars, schedVars,
                    retryVars, sendLog, batchVars, panicked, startupVars, selectVars,
                    workerConfig, semaphore, tasks, attempts, smtpBulk, statsVars, limiterVars >>

NextPool ==
    \/ \E n \in 0..MaxFanOut : PoolStart(n)
    \/ \E k \in 1..MaxFanOut : PoolAcquire(k)
    \/ \E k \in 1..MaxFanOut : PoolSendEmail(k)
    \/ PoolReturn

SpecPool == InitPool /\ [][NextPool]_vars

\* the goroutines run to completion whenever they can take a step
SpecPoolLive ==
    /\ SpecPool
    /\ \A k \in 1..MaxFanOut : WF_vars(PoolAcquire(k)) /\ WF_vars(PoolSendEmail(k))
    /\ WF_vars(PoolReturn)

C37_DispatchTerminates == (fanResult = "running") ~> (fanResult = "nil")


\* ========================================================= SMTP bulk send
\* largest recipient list of one SendBulkEmail call
MaxRecipients == 5

\* one SMTP backend as NewDynamicSMTPProvider leaves it
InitBulkSend ==
    /\ strategy = "round_robin"
    /\ providers = << Provider("smtp", 1, 20, FALSE, SMTPBatchSize) >>
    /\ isHealthy = << TRUE >>
    /\ emailsSentHour = << 0 >>
    /\ batch = << << >> >>
    /\ processingChan = << FALSE >>
    /\ isActive = [s \in Subscribers |-> FALSE]
    /\ notificationsSent = [c \in ContentIDs |-> FALSE]
    /\ DispatchIdle
    /\ SchedIdle
    /\ RetryIdle
    /\ sendLog = << >>
    /\ BatchIdle
    /\ panicked = FALSE
    /\ StartupIdle
    /\ SelectIdle
    /\ FanIdle
    /\ SMTPBulkIdle
    /\ StatsIdle
    /\ LimiterIdle

\* the test after the loop of SMTPEmailProvider.SendBulkEmail
BulkError(successCount, n) == successCount < n \div 2

\* SMTPEmailProvider.SendBulkEmail is called with n recipients
BulkCall(n) ==
    /\ smtpBulk.result = "idle"
    /\ smtpBulk' = [to |-> n, outcomes |-> << >>, result |-> "running"]
    /\ UNCHANGED << registryVars, isActive, notificationsSent, dispatchVars, schedVars,
                    retryVars, sendLog, batchVars, panicked, startupVars, selectVars,
                    fanVars, statsVars, limiterVars >>

\* one iteration of the loop: p.SendEmail for the next recipient
BulkSendNext ==
    /\ smtpBulk.result = "running"
    /\ Len(smtpBulk.outcomes) < smtpBulk.to
    /\ \E ok \in Outcomes(1) :
          /\ smtpBulk' = [smtpBulk EXCEPT !.outcomes = Append(@, ok)]
          /\ isHealthy' = BackendAfterSend(1, ok)[1]
          /\ emailsSentHour' = BackendAfterSend(1, ok)[2]
    /\ UNCHANGED << strategy, providers, batch, processingChan, isActive, notificationsSent,
                    dispatchVars, schedVars, retryVars, sendLog, batchVars, panicked,
                    startupVars, selectVars, fanVars, statsVars, limiterVars >>

\* the loop is over: the call returns the error or nil
BulkReturn ==
    /\ smtpBulk.result = "running"
    /\ Len(smtpBulk.outcomes) = smtpBulk.to
    /\ LET successCount == Len(SelectSeq(smtpBulk.outcomes, LAMBDA ok : ok))
       IN smtpBulk' = [smtpBulk EXCEPT !.result =
                          IF BulkError(successCount, smtpBulk.to) THEN "error" ELSE "nil"]
    /\ UNCHANGED << registryVars, isActive, notificationsSent, dispatchVars, schedVars,
                    retryVars, sendLog, batchVars, panicked, startupVars, selectVars,
                    fanVars, statsVars, limiterVars >>

NextBulkSend ==
    \/ \E n \in 0..MaxRecipients : BulkCall(n)
    \/ BulkSendNext
    \/ BulkReturn

SpecBulkSend == InitBulkSend /\ [][NextBulkSend]_vars

\* C33: when SMTP SendBulkEmail returns it has attempted every recipient
\* exactly once, and it returns nil exactly when twice the number of
\* successes is at least the number of recipients.
C33_BulkHalfThreshold ==
    smtpBulk.result \in {"nil", "error"} =>
        /\ Len(smtpBulk.outcomes) = smtpBulk.to
        /\ smtpBulk.result = "nil" <=>
              2 * Len(SelectSeq(smtpBulk.outcomes, LAMBDA ok : ok)) >= smtpBulk.to


\* ===================================================== provider statistics
\* last clock value explored
MaxClock == 5

\* time.Hour in clock units
Hour == 2

\* the zero time.Time of a field no constructor sets: far before any clock
\* value, so that time.Since of it exceeds every duration compared with
ZeroTime == 0 - 1000

\* time.Since
Since(t) == now - t

\* the test of GetStats that starts a new hourly window
WindowExpired(t) == Since(t) > Hour

\* one backend as its constructor leaves it: the SMTP, SendGrid and Mailtrap
\* constructors set lastHourReset to time.Now(), NewDynamicAPIProvider
\* leaves it at the zero time
InitStats ==
    /\ strategy = "round_robin"
    /\ \E kind \in Variants :
          /\ providers = << Provider(kind, 1, 20, kind # "smtp", 20) >>
          /\ lastHourReset = << IF kind = "generic" THEN ZeroTime ELSE 0 >>
    /\ isHealthy = << TRUE >>
    /\ emailsSentHour = << 0 >>
    /\ batch = << << >> >>
    /\ processingChan = << FALSE >>
    /\ isActive = [s \in Subscribers |-> FALSE]
    /\ notificationsSent = [c \in ContentIDs |-> FALSE]
    /\ DispatchIdle
    /\ SchedIdle
    /\ RetryIdle
    /\ sendLog = << >>
    /\ BatchIdle
    /\ panicked = FALSE
    /\ StartupIdle
    /\ SelectIdle
    /\ FanIdle
    /\ SMTPBulkIdle
    /\ now = 0
    /\ resetAt = << 0 >>
    /\ LimiterIdle

\* time passes
ClockTick ==
    /\ now < MaxClock
    /\ now' = now + 1
    /\ UNCHANGED << registryVars, isActive, notificationsSent, dispatchVars, schedVars,
                    retryVars, sendLog, batchVars, panicked, startupVars, selectVars,
                    fanVars, smtpBulk, lastHourReset, resetAt, limiterVars >>

\* one SendEmail call on the backend of provider p
StatsSendEmail(p) ==
    /\ emailsSentHour[p] < MaxSentHour
    /\ \E ok \in Outcomes(p) :
          /\ isHealthy' = BackendAfterSend(p, ok)[1]
          /\ emailsSentHour' = BackendAfterSend(p, ok)[2]
    /\ UNCHANGED << strategy, providers, batch, processingChan, isActive, notificationsSent,
                    dispatchVars, schedVars, retryVars, sendLog, batchVars, panicked,
                    startupVars, selectVars, fanVars, smtpBulk, statsVars, limiterVars >>

\* GetStats on the backend of provider p: a new hourly window starts when
\* more than an hour has passed since lastHourReset
GetStats(p) ==
    /\ p \in ProviderIdx
    /\ IF WindowExpired(lastHourReset[p])
       THEN /\ emailsSentHour' = [emailsSentHour EXCEPT ![p] = 0]
            /\ lastHourReset' = [lastHourReset EXCEPT ![p] = now]
            /\ resetAt' = [resetAt EXCEPT ![p] = now]
       ELSE UNCHANGED << emailsSentHour, lastHourReset, resetAt >>
    /\ UNCHANGED << strategy, providers, isHealthy, batch, processingChan, isActive,
                    notificationsSent, dispatchVars, schedVars, retryVars, sendLog,
                    batchVars, panicked, startupVars, selectVars, fanVars, smtpBulk, now, limiterVars >>

NextStats ==
    \/ ClockTick
    \/ \E p \in ProviderIdx : StatsSendEmail(p)
    \/ \E p \in ProviderIdx : GetStats(p)

SpecStats == InitStats /\ [][NextStats]_vars

\* C35, one step: the hourly counter of a provider goes down only in a stats
\* read that sets it to zero, and only when more than one hour has passed
\* since the provider was constructed or its counter was last reset.
C35_ResetStep ==
    \A p \in ProviderIdx :
        emailsSentHour'[p] < emailsSentHour[p] =>
            /\ GetStats(p)
            /\ emailsSentHour'[p] = 0
            /\ now - resetAt[p] > Hour

\* C35: the hourly counter is reset only by GetStats and only after more than
\* one hour since construction or the last reset, and never decreases
\* otherwise, for every provider variant.
C35_ResetOnlyAfterAnHour == [][C35_ResetStep]_vars

\* C34: after any sequence of send attempts on a backend its hourly counter
\* equals the number of attempts, failed ones included, and its health flag
\* equals the outcome of the last attempt, for every backend variant.
C34_EveryAttemptCounts ==
    \A p \in DOMAIN sendLog :
        /\ emailsSentHour[p] = Len(sendLog[p])
        /\ sendLog[p] # << >> => isHealthy[p] = sendLog[p][Len(sendLog[p])]

\* C36: in every reachable state the CurrentLoad that GetStats reports for a
\* provider is a percentage between 0 and 100.
C36_LoadIsPercentage ==
    \A i \in ProviderIdx : CurrentLoad(i) >= 0 /\ CurrentLoad(i) <= 100


\* ==================================================== repeated scheduler ticks
\* C38, one step: when a tick's dispatch of a content item has delivered to at
\* least one recipient, the pending-content query no longer returns the item.
C38_DispatchStep ==
    LET c == contentID' IN
    (/\ dispatched' = Append(dispatched, c)
     /\ tickErrors' = tickErrors
     /\ sentCount' > 0)
        => ~(published'[c] /\ ~notificationsSent'[c])

\* C38: under repeated scheduler ticks a content item whose dispatch delivered
\* to at least one recipient is not pending after that dispatch, so that no
\* later tick dispatches it again.
C38_DeliveredIsDispatchedOnce == [][C38_DispatchStep]_vars


\* ======================================================= request rate limiter
\* Allow calls explored
MaxRequests == 4

\* largest bucket_size explored
MaxBucket == 2

\* concurrent requests for the key
LimiterCallers == {1, 2}

\* the rules explored: refill_duration is two clock units
Rules ==
    { [BucketSize |-> b, RefillSize |-> r, RefillDuration |-> 2] :
        b \in 0..MaxBucket, r \in {1, 2} }

\* the bucket both Allow methods create for a key they do not know: one token
\* is consumed immediately
NewBucket(t) ==
    [Capacity |-> rule.BucketSize, Tokens |-> rule.BucketSize - 1,
     RefillSize |-> rule.RefillSize, RefillRate |-> rule.RefillDuration,
     LastRefill |-> t]

\* refillTokens (the same code in both variants)
refillTokens(b, t) ==
    LET elapsed == t - b.LastRefill
        refillCount == elapsed \div b.RefillRate
        newTokens == b.Tokens + (refillCount * b.RefillSize)
    IN IF refillCount > 0
       THEN [b EXCEPT !.Tokens = IF newTokens > b.Capacity THEN b.Capacity ELSE newTokens,
                      !.LastRefill = b.LastRefill + refillCount * b.RefillRate]
       ELSE b

\* what Allow makes of the bucket data it found (<< >> when the key is not
\* known) at clock value t: the bucket to store and the answer
AllowOn(data, t) ==
    IF data = << >>
    THEN [bucket |-> NewBucket(t), allowed |-> TRUE]
    ELSE LET b == refillTokens(data[1], t)
         IN IF b.Tokens <= 0
            THEN [bucket |-> b, allowed |-> FALSE]
            ELSE [bucket |-> [b EXCEPT !.Tokens = @ - 1], allowed |-> TRUE]

\* requests allowed since the stored bucket was created or last refilled,
\* after a call stored bucket b and answered allowed
AllowedAfter(b, allowed) ==
    LET refilled == bucket # << >> /\ b.LastRefill # bucket[1].LastRefill
    IN (IF refilled THEN 0 ELSE allowedSince) + (IF allowed THEN 1 ELSE 0)

\* a limiter of either variant with no bucket yet
InitLimiter ==
    /\ RegistryNone
    /\ isActive = [s \in Subscribers |-> FALSE]
    /\ notificationsSent = [c \in ContentIDs |-> FALSE]
    /\ DispatchIdle
    /\ SchedIdle
    /\ RetryIdle
    /\ sendLog = << >>
    /\ BatchIdle
    /\ panicked = FALSE
    /\ StartupIdle
    /\ SelectIdle
    /\ FanIdle
    /\ SMTPBulkIdle
    /\ StatsIdle
    /\ limiter \in {"memory", "redis"}
    /\ rule \in Rules
    /\ bucket = << >>
    /\ reqs = [w \in LimiterCallers |-> << >>]
    /\ allowedSince = 0
    /\ served = 0

\* MemoryRateLimiter.Allow, under the mutex from the first to the last line
MemoryAllow ==
    /\ limiter = "memory"
    /\ served < MaxRequests
    /\ LET r == AllowOn(bucket, now)
       IN /\ bucket' = << r.bucket >>
          /\ allowedSince' = AllowedAfter(r.bucket, r.allowed)
    /\ served' = served + 1
    /\ UNCHANGED << registryVars, isActive, notificationsSent, dispatchVars, schedVars,
                    retryVars, sendLog, batchVars, panicked, startupVars, selectVars,
                    fanVars, smtpBulk, statsVars, limiter, rule, reqs >>

\* RedisRateLimiter.Allow of caller w up to the reply of GET
RedisGet(w) ==
    /\ limiter = "redis"
    /\ reqs[w] = << >>
    /\ served + Cardinality({ v \in LimiterCallers : reqs[v] # << >> }) < MaxRequests
    /\ reqs' = [reqs EXCEPT ![w] = << [now |-> now, data |-> bucket] >>]
    /\ UNCHANGED << registryVars, isActive, notificationsSent, dispatchVars, schedVars,
                    retryVars, sendLog, batchVars, panicked, startupVars, selectVars,
                    fanVars, smtpBulk, statsVars, limiter, rule, bucket, allowedSince,
                    served >>

\* RedisRateLimiter.Allow of caller w from the reply of GET to the return:
\* the bucket it computed is written back with SET
RedisSave(w) ==
    /\ limiter = "redis"
    /\ reqs[w] # << >>
    /\ LET r == AllowOn(reqs[w][1].data, reqs[w][1].now)
       IN /\ bucket' = << r.bucket >>
          /\ allowedSince' = AllowedAfter(r.bucket, r.allowed)
    /\ reqs' = [reqs EXCEPT ![w] = << >>]
    /\ served' = served + 1
    /\ UNCHANGED << registryVars, isActive, notificationsSent, dispatchVars, schedVars,
                    retryVars, sendLog, batchVars, panicked, startupVars, selectVars,
                    fanVars, smtpBulk, statsVars, limiter, rule >>

NextLimiter ==
    \/ ClockTick
    \/ MemoryAllow
    \/ \E w \in LimiterCallers : RedisGet(w)
    \/ \E w \in LimiterCallers : RedisSave(w)

SpecLimiter == InitLimiter /\ [][NextLimiter]_vars

\* C39: for one key and one rule the stored token count is never below 0 nor
\* above the capacity, and no more than BucketSize requests are allowed
\* between two refills, in both variants, under concurrent requests and for
\* every BucketSize including 0.
C39_TokensWithinBucket ==
    /\ bucket # << >> =>
          bucket[1].Tokens >= 0 /\ bucket[1].Tokens <= bucket[1].Capacity
    /\ allowedSince <= rule.BucketSize

====
